---- MODULE Spec2Model ----
(***************************************************************************)
(* A model of the SVM runtime (crates/runtime), its storage host imports   *)
(* (crates/runtime/src/vmcalls/storage.rs), the in-memory template store   *)
(* and the page storage over the in-memory key-value store.                *)
(*                                                                         *)
(* Spec      : the runtime: deploy / spawn / call / verify and the guest   *)
(*             execution they start (one host import per step).            *)
(* SpecPages : several page-storage instances over one MemKVStore.         *)
(* SpecStore : the template store on its own.                              *)
(* SpecCodec : the codec's encoders and decoders on their own.             *)
(* SpecLayout: a FixedLayout built by its builder, and lookups in it.      *)
(* SpecNibble: a NibbleIter over a byte slice, and calls of next on it.    *)
(***************************************************************************)
EXTENDS Integers, Sequences, FiniteSets, TLC

\* ------------------------------------------------------------------ bounds

\* number of runtime operations (deploy, spawn, call, verify) in one behaviour
MaxOps == 3

\* number of steps (host imports, memory writes) a guest makes in one execution
MaxGuestSteps == 2

\* gas limits of the envelopes range over 0..MaxGas
MaxGas == 3

\* number of page-storage operations in one behaviour of SpecPages
MaxPageOps == 4

\* -------------------------------------------------------- program constants

\* store160 / load160 move 20 bytes
Bytes160 == 20

\* get32 / set32 accept variables of at most 4 bytes
Bytes32 == 4

\* get64 / set64 accept variables of at most 8 bytes
Bytes64 == 8

\* a Wasm page: the size of the guest's linear memory
WasmPage == 65536

\* ----------------------------------------------------------------- helpers

None == <<>>

Some(x) == <<x>>

\* a finite map with one binding added or replaced
Put(f, k, v) == [x \in (DOMAIN f) \cup {k} |-> IF x = k THEN v ELSE f[x]]

EmptyMap == [x \in {} |-> 0]

\* ------------------------------------------------------------ the universe

\* The deploy messages: each parses to a template.  `exports` are the functions
\* the Wasm code exports, `badsig` those whose signature is not the expected
\* one, `ctors` the Ctors section, `layout` the Data section (widths in bytes,
\* first variable id 0), `validated` whether validate_deploy accepts the message.
Templates ==
    { [id |-> 1, compiles |-> TRUE, instantiates |-> TRUE,
       exports |-> {"init", "run", "svm_alloc", "svm_verify"}, badsig |-> {},
       ctors |-> {"init", "ghost"}, layout |-> <<2, 8, 20>>, validated |-> TRUE, gas_mode |-> "Fixed"],
      [id |-> 2, compiles |-> TRUE, instantiates |-> TRUE,
       exports |-> {"init", "run", "odd"}, badsig |-> {"odd"},
       ctors |-> {"init"}, layout |-> <<2, 8, 20>>, validated |-> FALSE, gas_mode |-> "Fixed"],
      [id |-> 3, compiles |-> FALSE, instantiates |-> TRUE,
       exports |-> {"init", "svm_alloc"}, badsig |-> {},
       ctors |-> {"init"}, layout |-> <<2>>, validated |-> TRUE, gas_mode |-> "Fixed"],
      [id |-> 4, compiles |-> TRUE, instantiates |-> FALSE,
       exports |-> {"init", "svm_alloc"}, badsig |-> {},
       ctors |-> {"init"}, layout |-> <<2>>, validated |-> TRUE, gas_mode |-> "Fixed"] }

\* svm_gas::transaction::deploy(message): the price of installing a template
price_deploy(t) == IF t.id = 1 THEN 2 ELSE 1

\* Env::compute_template_addr: truncate20(H(serialize(template))), injective here
compute_template_addr(t) == <<"T", t.id>>

\* the TemplateHash of a template, injective here
compute_template_hash(t) == <<"H", t.id>>

\* TemplateSerializer::serialize / TemplateDeserializer::deserialize
serialize(t) == <<"bytes", t>>

deserialize(b) == b[2]

\* ------------------------------------------------------------------- state

VARIABLES
    hash,        \* MemTemplateStore.hash : TemplateAddr -> TemplateHash
    bytes,       \* MemTemplateStore.bytes: TemplateHash -> serialized template
    accounts,    \* the account store: account address -> account record
    prices,      \* DefaultRuntime.template_prices
    kv,          \* the committed storage backend: <<addr, state, var id>> -> bytes
    pc,          \* "idle", "alloc" (guest runs svm_alloc), "func", "aborted"
    cur,         \* the Call being executed
    overlay,     \* the uncommitted writes of the execution's AccountStorage
    mode,        \* FuncEnv's ProtectedMode
    logs,        \* FuncEnv's pending logs
    returndata,  \* FuncEnv's returndata window
    calldata,    \* FuncEnv's calldata window
    memory,      \* the guest's linear memory (the cells that are not 0)
    steps,       \* guest steps made in this execution
    ops,         \* operations started
    last,        \* the last operation's input
    receipt,     \* the last operation's result
    obs,         \* what the execution showed: functions invoked, reads, commits
    pkv,         \* SpecPages: the shared MemKVStore
    pending,     \* SpecPages: each storage instance's uncommitted pages
    pcommitted,  \* SpecPages: per address, the content last committed
    plast,       \* SpecPages: the last page operation
    pops,        \* SpecPages: operations made
    sargs,       \* SpecStore: the arguments of the last TemplateStore::store
    stored,      \* SpecStore: the addresses stored so far
    cpc,         \* SpecCodec: where the value is: input, encoded, tampered, decoded
    cval,        \* SpecCodec: the value to encode and what is done to its bytes
    cwire,       \* SpecCodec: the bytes
    cres,        \* SpecCodec: what the decoder returned
    lay,         \* SpecLayout: the builder, the layout it built, the last lookup
    nib          \* SpecNibble: the iterator, its data and what next returned

vars == <<hash, bytes, accounts, prices, kv, pc, cur, overlay, mode, logs,
          returndata, calldata, memory, steps, ops, last, receipt, obs,
          pkv, pending, pcommitted, plast, pops,
          sargs, stored, cpc, cval, cwire, cres, lay, nib>>

storeVars == <<hash, bytes>>

envVars == <<cur, overlay, mode, logs, returndata, calldata, memory, steps>>

pageVars == <<pkv, pending, pcommitted, plast, pops>>

unitVars == <<sargs, stored, cpc, cval, cwire, cres, lay, nib>>

\* a new FixedLayoutBuilder: no first id, no variable; nothing built or looked up
NewBuilder ==
    [first |-> <<>>, vars |-> <<>>, next_offset |-> 0, layout |-> <<>>,
     pushed |-> <<>>, got |-> <<>>]

\* ------------------------------------------------ bytes and little-endian

RECURSIVE LittleEndian_write_uint(_, _)
\* byteorder LittleEndian::write_uint(buf, value, nbytes): the nbytes low bytes,
\* the least significant first
LittleEndian_write_uint(value, nbytes) ==
    IF nbytes = 0 THEN <<>>
    ELSE <<value % 256>> \o LittleEndian_write_uint(value \div 256, nbytes - 1)

RECURSIVE LittleEndian_read_uint(_, _)
\* byteorder LittleEndian::read_uint(bytes, nbytes)
LittleEndian_read_uint(bs, nbytes) ==
    IF nbytes = 0 THEN 0
    ELSE bs[1] + 256 * LittleEndian_read_uint(Tail(bs), nbytes - 1)

RECURSIVE ShiftedOut(_, _)
\* what is left of the value above its nbytes low bytes
ShiftedOut(value, nbytes) ==
    IF nbytes = 0 THEN value ELSE ShiftedOut(value \div 256, nbytes - 1)

\* write_uint panics unless the value fits in nbytes bytes
Fits(value, nbytes) == ShiftedOut(value, nbytes) = 0

Zeros(n) == [i \in 1..n |-> 0]

\* ------------------------------------------------------- the template store

\* a store that keeps what an address or a hash already holds
TemplateStore_store_first_wins(t, addr, h) ==
    /\ hash' = IF addr \in DOMAIN hash THEN hash ELSE Put(hash, addr, h)
    /\ bytes' = IF h \in DOMAIN bytes THEN bytes ELSE Put(bytes, h, serialize(t))

\* a store that keeps the latest address only
TemplateStore_store_single(t, addr, h) ==
    /\ hash' = [a \in {addr} |-> h]
    /\ bytes' = Put(bytes, h, serialize(t))

\* MemTemplateStore::store
TemplateStore_store(t, addr, h) ==
    /\ hash' = Put(hash, addr, h)
    /\ bytes' = Put(bytes, h, serialize(t))

\* MemTemplateStore::load
TemplateStore_load(addr) ==
    IF addr \in DOMAIN hash /\ hash[addr] \in DOMAIN bytes
    THEN Some(deserialize(bytes[hash[addr]]))
    ELSE None

\* a deploy that persists nothing
store_template_skipped(t, addr) == UNCHANGED storeVars

\* Env::store_template
store_template(t, addr) == TemplateStore_store(t, addr, compute_template_hash(t))

\* AccountStore::resolve_template_addr
resolve_template_addr(a) ==
    IF a \in DOMAIN accounts THEN Some(accounts[a].template_addr) ELSE None

\* Env::account_template: the template of the account's template address
env_account_template(a) ==
    IF resolve_template_addr(a) = None THEN None
    ELSE TemplateStore_load(resolve_template_addr(a)[1])

\* Env::compute_account_addr: truncate20(H(template_addr, name, calldata))
compute_account_addr(template_addr, name, data) == <<"A", template_addr, name, data>>

\* ------------------------------------------------- the account's storage

ZeroState == {}

\* the template the running execution uses (exec: account_template(call.target))
CurTemplate == env_account_template(cur.target)[1]

\* FixedLayout: variable ids start at 0
Layout == CurTemplate.layout

\* FixedLayout::var_index asserts that the id is in range
InLayout(var_id) == var_id >= 0 /\ var_id < Len(Layout)

\* AccountStorage::var_layout: the variable's width in bytes
var_length(var_id) == Layout[var_id + 1]

\* the committed value of a variable at <<addr, state>>, zeros when missing
Committed(addr, state, var_id, n) ==
    IF <<addr, state, var_id>> \in DOMAIN kv THEN kv[<<addr, state, var_id>>]
    ELSE Zeros(n)

\* AccountStorage::read_var: the overlay first, then the committed backend
read_var(var_id) ==
    IF var_id \in DOMAIN overlay THEN overlay[var_id]
    ELSE Committed(cur.target, cur.state, var_id, var_length(var_id))

\* AccountStorage::write_var: queues the write in the overlay
write_var(var_id, bs) == Put(overlay, var_id, bs)

\* the <<id, bytes>> pairs reachable at a snapshot
Snapshot(addr, state) ==
    {<<k[3], kv[k]>> : k \in {x \in DOMAIN kv : x[1] = addr /\ x[2] = state}}

\* the pairs of the snapshot an execution's commit produces
NewSnapshot ==
    {p \in Snapshot(cur.target, cur.state) : p[1] \notin DOMAIN overlay}
        \cup {<<i, overlay[i]>> : i \in DOMAIN overlay}

\* AccountStorage::commit: the new State, a hash over the reachable pairs
commit_state == NewSnapshot

\* AccountStorage::commit: the backend with the overlay flushed
commit_kv ==
    [k \in (DOMAIN kv) \cup {<<cur.target, commit_state, p[1]>> : p \in NewSnapshot} |->
        IF k \in DOMAIN kv THEN kv[k]
        ELSE (CHOOSE p \in NewSnapshot : p[1] = k[3])[2]]

\* ------------------------------------------------------- the guest's memory

MemGet(a) == IF a \in DOMAIN memory THEN memory[a] ELSE 0

\* memory.view()[start..end], which panics past the end of the memory
InMemory(start, n) == start + n <= WasmPage

MemRead(start, n) == [i \in 1..n |-> MemGet(start + i - 1)]

MemWrite(start, bs) ==
    LET at(a) == IF a >= start /\ a < start + Len(bs) THEN bs[a - start + 1] ELSE MemGet(a)
        cells == (DOMAIN memory) \cup {start + i - 1 : i \in 1..Len(bs)}
    IN  [a \in {c \in cells : at(c) # 0} |-> at(a)]

\* --------------------------------------------- FuncEnv and the host imports

\* a FuncEnv that hands out the storage in every mode
storage_access_always == TRUE

\* FuncEnv's storage() / storage_mut(): refused under AccessDenied
storage_access == mode = "FullAccess"

\* what a host import does: it traps (a panic in the host function), or it
\* leaves a new overlay and memory and hands a value back to the guest
Trapped == [trap |-> TRUE, overlay |-> overlay, memory |-> memory, ret |-> None,
            wrote |-> None]

Done(ov, mem, ret, wrote) ==
    [trap |-> FALSE, overlay |-> ov, memory |-> mem, ret |-> ret, wrote |-> wrote]

\* store_n_impl!(20, ...)
store160(mem_ptr, var_id) ==
    IF ~InMemory(mem_ptr, Bytes160) THEN Trapped
    ELSE IF ~storage_access THEN Trapped
    ELSE IF ~InLayout(var_id) THEN Trapped
    ELSE IF var_length(var_id) # Bytes160 THEN Trapped
    ELSE Done(write_var(var_id, MemRead(mem_ptr, Bytes160)), memory, None,
              Some(<<var_id, MemRead(mem_ptr, Bytes160)>>))

\* load_n_impl!(20, ...)
load160(var_id, mem_ptr) ==
    IF ~storage_access THEN Trapped
    ELSE IF ~InLayout(var_id) THEN Trapped
    ELSE IF Len(read_var(var_id)) # Bytes160 THEN Trapped
    ELSE IF ~InMemory(mem_ptr, Bytes160) THEN Trapped
    ELSE Done(overlay, MemWrite(mem_ptr, read_var(var_id)),
              Some(<<var_id, read_var(var_id)>>), None)

\* get32 reading the most significant byte first
get32_be(var_id) ==
    IF ~storage_access THEN Trapped
    ELSE IF ~InLayout(var_id) THEN Trapped
    ELSE IF Len(read_var(var_id)) > Bytes32 THEN Trapped
    ELSE Done(overlay, memory,
              Some(<<var_id,
                     LET bs == read_var(var_id)
                         rev == [i \in 1..Len(bs) |-> bs[Len(bs) + 1 - i]]
                     IN  LittleEndian_read_uint(rev, Len(bs))>>),
              None)

get32(var_id) ==
    IF ~storage_access THEN Trapped
    ELSE IF ~InLayout(var_id) THEN Trapped
    ELSE IF Len(read_var(var_id)) > Bytes32 THEN Trapped
    ELSE Done(overlay, memory,
              Some(<<var_id, LittleEndian_read_uint(read_var(var_id), Len(read_var(var_id)))>>),
              None)

\* a set32 that keeps the low bytes of a value too large for the variable
set32_truncating(var_id, value) ==
    IF ~storage_access THEN Trapped
    ELSE IF ~InLayout(var_id) THEN Trapped
    ELSE IF var_length(var_id) > Bytes32 THEN Trapped
    ELSE Done(write_var(var_id, LittleEndian_write_uint(value, var_length(var_id))),
              memory, None, Some(<<var_id, value>>))

set32(var_id, value) ==
    IF ~storage_access THEN Trapped
    ELSE IF ~InLayout(var_id) THEN Trapped
    ELSE IF var_length(var_id) > Bytes32 THEN Trapped
    ELSE IF ~Fits(value, var_length(var_id)) THEN Trapped
    ELSE Done(write_var(var_id, LittleEndian_write_uint(value, var_length(var_id))),
              memory, None, Some(<<var_id, value>>))

get64(var_id) ==
    IF ~storage_access THEN Trapped
    ELSE IF ~InLayout(var_id) THEN Trapped
    ELSE IF Len(read_var(var_id)) > Bytes64 THEN Trapped
    ELSE Done(overlay, memory,
              Some(<<var_id, LittleEndian_read_uint(read_var(var_id), Len(read_var(var_id)))>>),
              None)

set64(var_id, value) ==
    IF ~storage_access THEN Trapped
    ELSE IF ~InLayout(var_id) THEN Trapped
    ELSE IF var_length(var_id) > Bytes64 THEN Trapped
    ELSE IF ~Fits(value, var_length(var_id)) THEN Trapped
    ELSE Done(write_var(var_id, LittleEndian_write_uint(value, var_length(var_id))),
              memory, None, Some(<<var_id, value>>))


\* ---------------------------------------------------------------- receipts

NoReceipt ==
    [kind |-> "none", success |-> FALSE, error |-> None, addr |-> None,
     state |-> None, returndata |-> None, gas_used |-> None, logs |-> <<>>]

\* the operation did not return: a panic (expect, unwrap, assert, unreachable!)
Panicked(where) == [NoReceipt EXCEPT !.kind = "panic", !.error = Some(<<"panic", where>>)]

\* DeployReceipt::new
DeployReceipt_new(addr, gas_used) ==
    [NoReceipt EXCEPT !.kind = "deploy", !.success = TRUE, !.addr = Some(addr),
                      !.gas_used = Some(gas_used)]

\* DeployReceipt::new_oog
DeployReceipt_new_oog ==
    [NoReceipt EXCEPT !.kind = "deploy", !.error = Some(<<"OOG">>)]

\* CallReceipt::from_err
CallReceipt_from_err(err, lg) ==
    [NoReceipt EXCEPT !.kind = "call", !.error = Some(err), !.logs = lg]

\* SpawnReceipt::from_err / SpawnReceipt::new_oog
SpawnReceipt_from_err(err, lg) ==
    [NoReceipt EXCEPT !.kind = "spawn", !.error = Some(err), !.logs = lg]

\* svm_types::into_spawn_receipt: account_addr = target, init_state = new_state
into_spawn_receipt(r, target) ==
    IF r.success THEN [r EXCEPT !.kind = "spawn", !.addr = Some(target)]
    ELSE [r EXCEPT !.kind = "spawn"]

\* exec_call's receipt, as call_ctor (spawn) or call / verify hand it back
Shaped(c, r) == IF c.within_spawn THEN into_spawn_receipt(r, c.target) ELSE r

\* instance_gas_used: always Ok(Gas::new())
instance_gas_used == [ok |-> TRUE, gas |-> None]

\* --------------------------------------------------------------- observation

NoObs ==
    [invoked |-> <<>>, import |-> "none", read |-> None, written |-> EmptyMap,
     commits |-> 0, origin |-> None, alloc |-> "none", emitted |-> <<>>,
     windows |-> <<>>]

NoCall ==
    [func_name |-> "", func_input |-> <<>>, target |-> None, template |-> None,
     state |-> ZeroState, within_spawn |-> FALSE, gas_limit |-> 0,
     protected_mode |-> "FullAccess"]

NoLast ==
    [kind |-> "none", gas |-> 0, template |-> None, target |-> None, func |-> "",
     input |-> <<>>, state |-> ZeroState, accepted |-> FALSE]

\* ------------------------------------------------------------- the inputs

GasLimits == 0..MaxGas

\* gas limits of the Call messages (call and verify never consult the limit)
CallGas == {MaxGas}

\* calldata / verifydata of the messages
Datas == {<<>>, <<7, 9>>}

\* function names of the Spawn and Call messages
MsgFuncs == {"init", "run", "ghost", "odd"}

AccountNames == {"a"}

TemplateAddrs == {compute_template_addr(t) : t \in Templates}

\* an account address no Spawn produces
UnknownAddr == <<"A", None, "", <<>>>>

\* the States a caller can know: the zero State and the committed ones
KnownStates == {ZeroState} \cup {k[2] : k \in DOMAIN kv}

\* values the guest passes to set32 / set64
Values == {258, 65536}

\* variable ids the guest passes (3 is outside every layout)
VarIds == 0..3

\* memory pointers the guest uses: one in range, one at the last byte
Ptrs == {0, WasmPage - 1}

\* the 20 bytes the guest writes to its memory before store160
Addr20 == [i \in 1..Bytes160 |-> i]

\* returndata windows <<offset, length>> the guest sets
Windows == {<<0, 2>>, <<1, 1>>, <<0, 0>>}

LogEntries == {"m"}

\* the page-storage instances: 1 and 2 serve the same address, 3 another one
Storages == 1..3

\* ------------------------------------------------------------------ deploy

deploy_affordable_off_by_one(gas_limit, install_price) == gas_limit + 1 >= install_price

\* deploy: `if gas_limit >= install_price`
deploy_affordable(gas_limit, install_price) == gas_limit >= install_price

\* DefaultRuntime::deploy
deploy(gas_limit, t) ==
    /\ pc = "idle"
    /\ ops < MaxOps
    /\ ops' = ops + 1
    /\ last' = [NoLast EXCEPT !.kind = "deploy", !.gas = gas_limit,
                              !.template = Some(compute_template_addr(t)),
                              !.accepted = t.validated]
    /\ IF deploy_affordable(gas_limit, price_deploy(t))
       THEN /\ store_template(t, compute_template_addr(t))
            /\ receipt' = DeployReceipt_new(compute_template_addr(t), price_deploy(t))
       ELSE /\ UNCHANGED storeVars
            /\ receipt' = DeployReceipt_new_oog
    /\ obs' = NoObs
    /\ UNCHANGED <<accounts, prices, kv, pc, envVars, pageVars, unitVars>>

Deploy == \E g \in GasLimits, t \in Templates : deploy(g, t)


\* ------------------------------------------------- the execution pipeline

\* Template::is_ctor
is_ctor(t, func_name) == func_name \in t.ctors

validate_call_spawn_only(c, t) ==
    IF c.within_spawn /\ ~is_ctor(t, c.func_name)
    THEN Some(<<"FuncNotAllowed", c.func_name>>)
    ELSE None

\* DefaultRuntime::validate_call (the constructor rule): None when allowed
validate_call(c, t) ==
    IF c.within_spawn /\ ~is_ctor(t, c.func_name)
    THEN Some(<<"FuncNotAllowed", c.func_name>>)
    ELSE IF ~c.within_spawn /\ is_ctor(t, c.func_name)
    THEN Some(<<"FuncNotAllowed", c.func_name>>)
    ELSE None

\* DefaultRuntime::func: the export exists and has the expected signature
func(t, func_name) ==
    IF func_name \notin t.exports THEN Some(<<"FuncNotFound", func_name>>)
    ELSE IF func_name \in t.badsig THEN Some(<<"FuncInvalidSignature", func_name>>)
    ELSE None

\* where exec leaves the execution before the first guest instruction runs
Outcome(p, m, r, inv, origin, alloc) ==
    [pc |-> p, mode |-> m, receipt |-> r, invoked |-> inv, origin |-> origin,
     alloc |-> alloc]

\* failure_to_receipt, shaped for the operation
Failure(c, err, lg) == Shaped(c, CallReceipt_from_err(err, lg))

\* a call_alloc that runs svm_alloc under the caller's mode
call_alloc_enter_keeps_mode(c, t) ==
    IF func(t, "svm_alloc") # None
    THEN Outcome("idle", c.protected_mode, Failure(c, <<"FuncNotFound", "svm_alloc">>, <<>>),
                 <<>>, Some(c.protected_mode), "notfound")
    ELSE Outcome("alloc", c.protected_mode, NoReceipt, <<"svm_alloc">>,
                 Some(c.protected_mode), "running")

\* call_alloc up to the guest's svm_alloc: saves the mode, sets AccessDenied
call_alloc_enter(c, t) ==
    IF func(t, "svm_alloc") # None
    THEN Outcome("idle", "AccessDenied", Failure(c, <<"FuncNotFound", "svm_alloc">>, <<>>),
                 <<>>, Some(c.protected_mode), "notfound")
    ELSE Outcome("alloc", "AccessDenied", NoReceipt, <<"svm_alloc">>,
                 Some(c.protected_mode), "running")

\* a run that goes through svm_alloc whatever the calldata
run_always_alloc(c, t) ==
    IF validate_call(c, t) # None
    THEN Outcome("idle", c.protected_mode, Failure(c, validate_call(c, t)[1], <<>>),
                 <<>>, None, "none")
    ELSE IF ~t.compiles
    THEN Outcome("idle", c.protected_mode, Failure(c, <<"CompilationFailed">>, <<>>),
                 <<>>, None, "none")
    ELSE IF ~t.instantiates
    THEN Outcome("idle", c.protected_mode, Failure(c, <<"InstantiationFailed">>, <<>>),
                 <<>>, None, "none")
    ELSE IF func(t, c.func_name) # None
    THEN Outcome("idle", c.protected_mode, Failure(c, func(t, c.func_name)[1], <<>>),
                 <<>>, None, "none")
    ELSE call_alloc_enter(c, t)

\* a run that looks svm_alloc up before it resolves the target function
run_alloc_first(c, t) ==
    IF validate_call(c, t) # None
    THEN Outcome("idle", c.protected_mode, Failure(c, validate_call(c, t)[1], <<>>),
                 <<>>, None, "none")
    ELSE IF ~t.compiles
    THEN Outcome("idle", c.protected_mode, Failure(c, <<"CompilationFailed">>, <<>>),
                 <<>>, None, "none")
    ELSE IF ~t.instantiates
    THEN Outcome("idle", c.protected_mode, Failure(c, <<"InstantiationFailed">>, <<>>),
                 <<>>, None, "none")
    ELSE IF Len(c.func_input) > 0 /\ func(t, "svm_alloc") # None
    THEN call_alloc_enter(c, t)
    ELSE IF func(t, c.func_name) # None
    THEN Outcome("idle", c.protected_mode, Failure(c, func(t, c.func_name)[1], <<>>),
                 <<>>, None, "none")
    ELSE IF Len(c.func_input) > 0
    THEN call_alloc_enter(c, t)
    ELSE Outcome("func", c.protected_mode, NoReceipt, <<c.func_name>>, None, "none")

\* DefaultRuntime::run up to the first guest instruction
run(c, t) ==
    IF validate_call(c, t) # None
    THEN Outcome("idle", c.protected_mode, Failure(c, validate_call(c, t)[1], <<>>),
                 <<>>, None, "none")
    ELSE IF ~t.compiles
    THEN Outcome("idle", c.protected_mode, Failure(c, <<"CompilationFailed">>, <<>>),
                 <<>>, None, "none")
    ELSE IF ~t.instantiates
    THEN Outcome("idle", c.protected_mode, Failure(c, <<"InstantiationFailed">>, <<>>),
                 <<>>, None, "none")
    ELSE IF func(t, c.func_name) # None
    THEN Outcome("idle", c.protected_mode, Failure(c, func(t, c.func_name)[1], <<>>),
                 <<>>, None, "none")
    ELSE IF Len(c.func_input) > 0
    THEN call_alloc_enter(c, t)
    ELSE Outcome("func", c.protected_mode, NoReceipt, <<c.func_name>>, None, "none")

\* DefaultRuntime::exec: `tpl` is account_template(call.target)
exec(c, tpl) ==
    IF tpl = None
    THEN Outcome("idle", c.protected_mode,
                 Failure(c, <<"AccountNotFound", c.target>>, <<>>), <<>>, None, "none")
    ELSE run(c, tpl[1])

\* exec_call: a new FuncEnv over a storage opened at call.state
exec_call(c, tpl) ==
    /\ cur' = c
    /\ overlay' = EmptyMap
    /\ logs' = <<>>
    /\ returndata' = None
    /\ calldata' = None
    /\ memory' = EmptyMap
    /\ steps' = 0
    /\ mode' = exec(c, tpl).mode
    /\ pc' = exec(c, tpl).pc
    /\ receipt' = exec(c, tpl).receipt
    /\ obs' = [NoObs EXCEPT !.invoked = exec(c, tpl).invoked,
                            !.origin = exec(c, tpl).origin,
                            !.alloc = exec(c, tpl).alloc]
    /\ UNCHANGED kv

\* the operation panics: nothing is returned and the runtime is gone
Abort(where) ==
    /\ pc' = "aborted"
    /\ receipt' = Panicked(where)
    /\ obs' = NoObs
    /\ UNCHANGED <<kv, envVars>>

\* --------------------------------------------------------- call and verify

\* a build_call that opens the storage at the zero State
build_call_zero_state(gas_limit, target, state, protected_mode, func_name, func_input) ==
    [func_name |-> func_name, func_input |-> func_input, target |-> target,
     template |-> resolve_template_addr(target), state |-> ZeroState,
     within_spawn |-> FALSE, gas_limit |-> gas_limit,
     protected_mode |-> protected_mode]

\* DefaultRuntime::build_call
build_call(gas_limit, target, state, protected_mode, func_name, func_input) ==
    [func_name |-> func_name, func_input |-> func_input, target |-> target,
     template |-> resolve_template_addr(target), state |-> state,
     within_spawn |-> FALSE, gas_limit |-> gas_limit,
     protected_mode |-> protected_mode]

\* DefaultRuntime::call
call(gas_limit, target, func_name, data, state) ==
    /\ pc = "idle"
    /\ ops < MaxOps
    /\ ops' = ops + 1
    /\ last' = [NoLast EXCEPT !.kind = "call", !.gas = gas_limit, !.target = Some(target),
                              !.func = func_name, !.input = data, !.state = state,
                              !.accepted = TRUE]
    /\ IF resolve_template_addr(target) = None
       THEN Abort("build_call")
       ELSE exec_call(build_call(gas_limit, target, state, "FullAccess", func_name, data),
                      env_account_template(target))
    /\ UNCHANGED <<storeVars, accounts, prices, pageVars, unitVars>>

\* DefaultRuntime::verify
verify(gas_limit, target, verifydata, state) ==
    /\ pc = "idle"
    /\ ops < MaxOps
    /\ ops' = ops + 1
    /\ last' = [NoLast EXCEPT !.kind = "verify", !.gas = gas_limit, !.target = Some(target),
                              !.func = "svm_verify", !.input = verifydata,
                              !.state = state, !.accepted = TRUE]
    /\ IF resolve_template_addr(target) = None
       THEN Abort("build_call")
       ELSE exec_call(build_call(gas_limit, target, state, "AccessDenied", "svm_verify",
                                 verifydata),
                      env_account_template(target))
    /\ UNCHANGED <<storeVars, accounts, prices, pageVars, unitVars>>

Call ==
    \E g \in CallGas, a \in (DOMAIN accounts) \cup {UnknownAddr}, f \in MsgFuncs,
       d \in Datas, s \in KnownStates : call(g, a, f, d, s)

Verify ==
    \E g \in CallGas, a \in (DOMAIN accounts) \cup {UnknownAddr}, d \in Datas,
       s \in KnownStates : verify(g, a, d, s)

\* ------------------------------------------------------------------- spawn

\* ProgramPricing::visit: the price of each exported function
func_price(t) == [f \in t.exports |-> IF f \in t.ctors THEN 2 ELSE 1]

\* svm_gas::transaction::spawn(message): the price of the message's payload
price_spawn(data) == 2 + Len(data) \div 2

\* the cache drops the entry it has just served
template_prices_evict_on_hit(taddr, t) ==
    IF taddr \in DOMAIN prices
    THEN [a \in DOMAIN prices \ {taddr} |-> prices[a]]
    ELSE Put(prices, taddr, func_price(t))

\* spawn: template_prices after the lookup; a missing entry is inserted
template_prices_insert(taddr, t) ==
    IF taddr \in DOMAIN prices THEN prices
    ELSE Put(prices, taddr, func_price(t))

\* spawn: the prices the lookup hands back, cached or just computed
template_prices_get(taddr, t) ==
    IF taddr \in DOMAIN prices THEN prices[taddr] ELSE func_price(t)

ctor_affordable_at_price(gas_limit, price) == gas_limit >= price

\* spawn: `if gas_limit <= price { return SpawnReceipt::new_oog }`
ctor_affordable(gas_limit, price) == ~(gas_limit <= price)

\* a call_ctor that opens the storage at the State of the transaction context
ctor_call_context_state(taddr, target, ctor_name, data, gas_left, context_state) ==
    [func_name |-> ctor_name, func_input |-> data, target |-> target,
     template |-> Some(taddr), state |-> context_state, within_spawn |-> TRUE,
     gas_limit |-> gas_left, protected_mode |-> "FullAccess"]

\* call_ctor's Call: `state: &State::zeros()`, whatever context.state() is
ctor_call(taddr, target, ctor_name, data, gas_left, context_state) ==
    [func_name |-> ctor_name, func_input |-> data, target |-> target,
     template |-> Some(taddr), state |-> ZeroState, within_spawn |-> TRUE,
     gas_limit |-> gas_left, protected_mode |-> "FullAccess"]

\* a spawn that stores the account before its gas checks
spawn_loaded_store_first(gas_limit, t, taddr, name, ctor_name, data, fp, context_state) ==
    LET target == compute_account_addr(taddr, name, data) IN
    IF ~is_ctor(t, ctor_name)
    THEN /\ receipt' = SpawnReceipt_from_err(<<"FuncNotAllowed", ctor_name>>, <<>>)
         /\ obs' = NoObs
         /\ UNCHANGED <<accounts, kv, pc, envVars>>
    ELSE IF t.gas_mode = "Metering"
    THEN Abort("gas_mode") /\ UNCHANGED accounts
    ELSE IF ctor_name \notin t.exports
    THEN Abort("ctor_func_index") /\ UNCHANGED accounts
    ELSE IF ~ctor_affordable(gas_limit, fp[ctor_name]) \/ gas_limit < price_spawn(data)
    THEN /\ accounts' = Put(accounts, target, [name |-> name, template_addr |-> taddr])
         /\ receipt' = SpawnReceipt_from_err(<<"OOG">>, <<>>)
         /\ obs' = NoObs
         /\ UNCHANGED <<kv, pc, envVars>>
    ELSE /\ accounts' = Put(accounts, target, [name |-> name, template_addr |-> taddr])
         /\ exec_call(ctor_call(taddr, target, ctor_name, data,
                                gas_limit - price_spawn(data), context_state),
                      Some(t))

\* spawn, once the template is loaded and its prices are known
spawn_loaded(gas_limit, t, taddr, name, ctor_name, data, fp, context_state) ==
    LET target == compute_account_addr(taddr, name, data) IN
    IF ~is_ctor(t, ctor_name)
    THEN /\ receipt' = SpawnReceipt_from_err(<<"FuncNotAllowed", ctor_name>>, <<>>)
         /\ obs' = NoObs
         /\ UNCHANGED <<accounts, kv, pc, envVars>>
    ELSE IF t.gas_mode = "Metering"
    THEN Abort("gas_mode") /\ UNCHANGED accounts
    ELSE IF ctor_name \notin t.exports
    THEN Abort("ctor_func_index") /\ UNCHANGED accounts
    ELSE IF ~ctor_affordable(gas_limit, fp[ctor_name])
    THEN /\ receipt' = SpawnReceipt_from_err(<<"OOG">>, <<>>)
         /\ obs' = NoObs
         /\ UNCHANGED <<accounts, kv, pc, envVars>>
    ELSE IF gas_limit < price_spawn(data)
    THEN /\ receipt' = SpawnReceipt_from_err(<<"OOG">>, <<>>)
         /\ obs' = NoObs
         /\ UNCHANGED <<accounts, kv, pc, envVars>>
    ELSE /\ accounts' = Put(accounts, target, [name |-> name, template_addr |-> taddr])
         /\ exec_call(ctor_call(taddr, target, ctor_name, data,
                                gas_limit - price_spawn(data), context_state),
                      Some(t))

\* DefaultRuntime::spawn; `context_state` is the State the Context carries
spawn(gas_limit, taddr, name, ctor_name, data, context_state) ==
    /\ pc = "idle"
    /\ ops < MaxOps
    /\ ops' = ops + 1
    /\ last' = [NoLast EXCEPT !.kind = "spawn", !.gas = gas_limit,
                              !.template = Some(taddr), !.func = ctor_name,
                              !.target = Some(compute_account_addr(taddr, name, data)),
                              !.input = data, !.state = context_state,
                              !.accepted = TRUE]
    /\ IF TemplateStore_load(taddr) = None
       THEN Abort("template") /\ UNCHANGED <<accounts, prices>>
       ELSE /\ prices' = template_prices_insert(taddr, TemplateStore_load(taddr)[1])
            /\ spawn_loaded(gas_limit, TemplateStore_load(taddr)[1], taddr, name,
                            ctor_name, data,
                            template_prices_get(taddr, TemplateStore_load(taddr)[1]),
                            context_state)
    /\ UNCHANGED <<storeVars, pageVars, unitVars>>

Spawn ==
    \E g \in GasLimits, ta \in TemplateAddrs, n \in AccountNames, f \in MsgFuncs,
       d \in Datas, s \in KnownStates : spawn(g, ta, n, f, d, s)


\* ---------------------------------------------------------- the guest runs

Running == pc \in {"alloc", "func"}

\* the guest function the engine is running
RunningFunc == IF pc = "alloc" THEN "svm_alloc" ELSE cur.func_name

failure_commits == commit_kv

\* failure_to_receipt: the backend after a failed execution (nothing is committed)
failure_kv == kv

\* wasmer_call when the guest call failed: func_failed with the logs taken from
\* the FuncEnv; call_alloc, run and exec hand the Failure up to exec_call
wasmer_call_failed(import) ==
    /\ pc' = "idle"
    /\ logs' = <<>>
    /\ receipt' = Failure(cur, <<"FuncFailed", RunningFunc>>, logs)
    /\ kv' = failure_kv
    /\ obs' = [obs EXCEPT !.import = import, !.read = None,
                          !.alloc = IF pc = "alloc" THEN "failed" ELSE @]
    /\ UNCHANGED <<cur, overlay, mode, returndata, calldata, memory, steps>>

\* a host import of vmcalls/storage.rs called by the guest, with its outcome `o`
StorageImport(import, o) ==
    /\ Running
    /\ steps < MaxGuestSteps
    /\ IF o.trap
       THEN wasmer_call_failed(import)
       ELSE /\ overlay' = o.overlay
            /\ memory' = o.memory
            /\ steps' = steps + 1
            /\ obs' = [obs EXCEPT !.import = import,
                                  !.read = IF o.wrote # None THEN None ELSE o.ret,
                                  !.written = IF o.wrote = None THEN @
                                              ELSE Put(@, o.wrote[1][1], o.wrote[1][2])]
            /\ UNCHANGED <<kv, pc, cur, mode, logs, returndata, calldata, receipt>>
    /\ UNCHANGED <<storeVars, accounts, prices, ops, last, pageVars, unitVars>>

Store160 == \E p \in Ptrs, i \in VarIds : StorageImport("store160", store160(p, i))

Load160 == \E p \in Ptrs, i \in VarIds : StorageImport("load160", load160(i, p))

Get32 == \E i \in VarIds : StorageImport("get32", get32(i))

Set32 == \E i \in VarIds, v \in Values : StorageImport("set32", set32(i, v))

Get64 == \E i \in VarIds : StorageImport("get64", get64(i))

Set64 == \E i \in VarIds, v \in Values : StorageImport("set64", set64(i, v))

\* the `log` host import: appends an entry to the FuncEnv's logs
Log ==
    \E m \in LogEntries :
        /\ Running
        /\ steps < MaxGuestSteps
        /\ logs' = Append(logs, m)
        /\ steps' = steps + 1
        /\ obs' = [obs EXCEPT !.import = "log", !.read = None,
                              !.emitted = Append(@, m)]
        /\ UNCHANGED <<kv, pc, cur, overlay, mode, returndata, calldata, memory, receipt>>
        /\ UNCHANGED <<storeVars, accounts, prices, ops, last, pageVars, unitVars>>

\* the `set_returndata` host import: records the window, overwriting an earlier one
SetReturndata ==
    \E w \in Windows :
        /\ Running
        /\ steps < MaxGuestSteps
        /\ returndata' = Some(w)
        /\ steps' = steps + 1
        /\ obs' = [obs EXCEPT !.import = "set_returndata", !.read = None,
                              !.windows = Append(@, w)]
        /\ UNCHANGED <<kv, pc, cur, overlay, mode, logs, calldata, memory, receipt>>
        /\ UNCHANGED <<storeVars, accounts, prices, ops, last, pageVars, unitVars>>

\* the guest stores 20 bytes into its own memory
GuestWrite ==
    /\ Running
    /\ steps < MaxGuestSteps
    /\ memory' = MemWrite(0, Addr20)
    /\ steps' = steps + 1
    /\ obs' = [obs EXCEPT !.import = "write", !.read = None]
    /\ UNCHANGED <<kv, pc, cur, overlay, mode, logs, returndata, calldata, receipt>>
    /\ UNCHANGED <<storeVars, accounts, prices, ops, last, pageVars, unitVars>>

\* the guest traps (unreachable, a failed guest assertion, ...)
GuestTrap ==
    /\ Running
    /\ wasmer_call_failed("trap")
    /\ UNCHANGED <<storeVars, accounts, prices, ops, last, pageVars, unitVars>>

\* ------------------------------------------------ after the guest returned

call_alloc_exit_denied(origin_mode) == "AccessDenied"

\* call_alloc, after svm_alloc returned: `env.set_protected_mode(origin_mode)`
call_alloc_exit(origin_mode) == origin_mode

\* svm_alloc returned `ptr`: call_alloc restores the mode, call_with_alloc asserts
\* that no returndata was set, copies the calldata and calls the function
AllocReturn ==
    \E ptr \in Ptrs :
        /\ pc = "alloc"
        /\ logs' = <<>>
        /\ mode' = call_alloc_exit(obs.origin[1])
        /\ IF returndata # None
           THEN /\ pc' = "aborted"
                /\ receipt' = Panicked("assert_no_returndata")
                /\ obs' = [obs EXCEPT !.import = "return", !.read = None, !.alloc = "ok"]
                /\ UNCHANGED <<calldata, memory>>
           ELSE IF ~(WasmPage > ptr + Len(cur.func_input) - 1)
           THEN /\ pc' = "aborted"
                /\ receipt' = Panicked("set_calldata")
                /\ obs' = [obs EXCEPT !.import = "return", !.read = None, !.alloc = "ok"]
                /\ UNCHANGED <<calldata, memory>>
           ELSE /\ pc' = "func"
                /\ memory' = MemWrite(ptr, cur.func_input)
                /\ calldata' = Some(<<ptr, Len(cur.func_input)>>)
                /\ obs' = [obs EXCEPT !.import = "return", !.read = None, !.alloc = "ok",
                                      !.invoked = Append(@, cur.func_name)]
                /\ UNCHANGED receipt
        /\ UNCHANGED <<kv, cur, overlay, returndata, steps>>
        /\ UNCHANGED <<storeVars, accounts, prices, ops, last, pageVars, unitVars>>

\* read_memory asserts the window is not empty and lies in the memory
read_memory_ok(offset, length) == length > 0 /\ WasmPage > offset + length - 1

\* a take_returndata that reads from the start of the memory
take_returndata_from_start ==
    IF returndata = None THEN <<>>
    ELSE MemRead(0, returndata[1][2])

\* take_returndata
take_returndata ==
    IF returndata = None THEN <<>>
    ELSE MemRead(returndata[1][1], returndata[1][2])

\* a receipt that reports the zero State instead of the committed one
outcome_to_receipt_state_zeros(lg) ==
    [NoReceipt EXCEPT !.kind = "call", !.success = TRUE,
                      !.returndata = Some(take_returndata),
                      !.state = Some(ZeroState),
                      !.gas_used = Some(instance_gas_used.gas), !.logs = lg]

\* outcome_to_receipt: returndata, then commit_changes, gas_used and the logs
outcome_to_receipt(lg) ==
    [NoReceipt EXCEPT !.kind = "call", !.success = TRUE,
                      !.returndata = Some(take_returndata),
                      !.state = Some(commit_state),
                      !.gas_used = Some(instance_gas_used.gas), !.logs = lg]

\* the function returned: wasmer_call takes the logs, run builds the Outcome and
\* exec_call turns it into the receipt, committing the storage
FuncReturn ==
    /\ pc = "func"
    /\ logs' = <<>>
    /\ IF ~instance_gas_used.ok
       THEN /\ pc' = "idle"
            /\ receipt' = Failure(cur, <<"OOG">>, logs)
            /\ kv' = failure_kv
            /\ obs' = [obs EXCEPT !.import = "return", !.read = None]
       ELSE IF returndata # None /\ ~read_memory_ok(returndata[1][1], returndata[1][2])
       THEN /\ pc' = "aborted"
            /\ receipt' = Panicked("read_memory")
            /\ obs' = [obs EXCEPT !.import = "return", !.read = None]
            /\ UNCHANGED kv
       ELSE /\ pc' = "idle"
            /\ receipt' = Shaped(cur, outcome_to_receipt(logs))
            /\ kv' = commit_kv
            /\ obs' = [obs EXCEPT !.import = "return", !.read = None,
                                  !.commits = @ + 1]
    /\ UNCHANGED <<cur, overlay, mode, returndata, calldata, memory, steps>>
    /\ UNCHANGED <<storeVars, accounts, prices, ops, last, pageVars, unitVars>>

\* ------------------------------------------------------- the specification

Init ==
    /\ hash = EmptyMap
    /\ bytes = EmptyMap
    /\ accounts = EmptyMap
    /\ prices = EmptyMap
    /\ kv = EmptyMap
    /\ pc = "idle"
    /\ cur = NoCall
    /\ overlay = EmptyMap
    /\ mode = "FullAccess"
    /\ logs = <<>>
    /\ returndata = None
    /\ calldata = None
    /\ memory = EmptyMap
    /\ steps = 0
    /\ ops = 0
    /\ last = NoLast
    /\ receipt = NoReceipt
    /\ obs = NoObs
    /\ pkv = EmptyMap
    /\ pending = [i \in Storages |-> EmptyMap]
    /\ pcommitted = EmptyMap
    /\ plast = None
    /\ pops = 0
    /\ sargs = None
    /\ stored = {}
    /\ cpc = "idle"
    /\ cval = None
    /\ cwire = <<>>
    /\ cres = None
    /\ lay = NewBuilder
    /\ nib = None

Next ==
    \/ Deploy
    \/ Spawn
    \/ Call
    \/ Verify
    \/ Store160
    \/ Load160
    \/ Get32
    \/ Set32
    \/ Get64
    \/ Set64
    \/ Log
    \/ SetReturndata
    \/ GuestWrite
    \/ GuestTrap
    \/ AllocReturn
    \/ FuncReturn

Spec == Init /\ [][Next]_vars


\* ------------------------------------- page storage over a shared MemKVStore

StorageAddr(i) == IF i = 3 THEN "0x55667788" ELSE "0x11223344"

PageIndexes == {0, 1}

PageDatas == {<<10, 20, 30>>, <<40, 50, 60>>}

MemKVStore_store_keep_existing(map, key, value) ==
    IF key \in DOMAIN map THEN map ELSE Put(map, key, value)

\* MemKVStore::store: inserts, replacing an existing entry
MemKVStore_store(map, key, value) == Put(map, key, value)

\* MemKVStore::get
MemKVStore_get(map, key) == IF key \in DOMAIN map THEN Some(map[key]) ELSE None

page_key_without_address(addr, page_idx) == <<"page", page_idx>>

\* the key of a page in the key-value store: a hash of the address and the index
page_key(addr, page_idx) == <<"page", addr, page_idx>>

\* a read_page that serves the instance's own pending pages
read_page_sees_pending(i, page_idx) ==
    IF page_idx \in DOMAIN pending[i] THEN Some(pending[i][page_idx])
    ELSE MemKVStore_get(pkv, page_key(StorageAddr(i), page_idx))

\* PagesStorage::read_page: the committed content, None when never committed
read_page(i, page_idx) == MemKVStore_get(pkv, page_key(StorageAddr(i), page_idx))

\* PagesStorage::uncommitted_len
uncommitted_len(i) == Cardinality(DOMAIN pending[i])

RECURSIVE StoreAll(_, _, _, _)
\* the key-value store after storing the pending pages `todo` of `pages`
StoreAll(map, addr, pages, todo) ==
    IF todo = {} THEN map
    ELSE LET p == CHOOSE x \in todo : TRUE IN
         StoreAll(MemKVStore_store(map, page_key(addr, p), pages[p]), addr, pages,
                  todo \ {p})

\* a write_page that keeps the content first written to a pending page
write_page_keeps_first(i, page_idx, data) ==
    /\ pops < MaxPageOps
    /\ pops' = pops + 1
    /\ pending' = [pending EXCEPT ![i] = IF page_idx \in DOMAIN @ THEN @
                                         ELSE Put(@, page_idx, data)]
    /\ plast' = Some(<<"write_page", i, page_idx, data>>)
    /\ UNCHANGED <<pkv, pcommitted>>
    /\ UNCHANGED <<storeVars, accounts, prices, kv, pc, envVars, ops, last, receipt, obs, unitVars>>

\* PagesStorage::write_page: the page becomes pending, nothing reaches the store
write_page(i, page_idx, data) ==
    /\ pops < MaxPageOps
    /\ pops' = pops + 1
    /\ pending' = [pending EXCEPT ![i] = Put(@, page_idx, data)]
    /\ plast' = Some(<<"write_page", i, page_idx, data>>)
    /\ UNCHANGED <<pkv, pcommitted>>
    /\ UNCHANGED <<storeVars, accounts, prices, kv, pc, envVars, ops, last, receipt, obs, unitVars>>

\* PagesStorage::commit: stores every pending page and clears the pending set
commit(i) ==
    /\ pops < MaxPageOps
    /\ pops' = pops + 1
    /\ pkv' = StoreAll(pkv, StorageAddr(i), pending[i], DOMAIN pending[i])
    /\ pending' = [pending EXCEPT ![i] = EmptyMap]
    /\ pcommitted' = [k \in (DOMAIN pcommitted) \cup
                            {<<StorageAddr(i), p>> : p \in DOMAIN pending[i]} |->
                        IF k[1] = StorageAddr(i) /\ k[2] \in DOMAIN pending[i]
                        THEN pending[i][k[2]] ELSE pcommitted[k]]
    /\ plast' = Some(<<"commit", i, 0, <<>>>>)
    /\ UNCHANGED <<storeVars, accounts, prices, kv, pc, envVars, ops, last, receipt, obs, unitVars>>

WritePage == \E i \in Storages, p \in PageIndexes, d \in PageDatas : write_page(i, p, d)

Commit == \E i \in Storages : commit(i)

NextPages ==
    \/ WritePage
    \/ Commit

SpecPages == Init /\ [][NextPages]_vars


\* ------------------------------------------- the template store on its own

\* the addresses and hashes a caller of TemplateStore hands in
StoreAddrs == {compute_template_addr(t) : t \in {x \in Templates : x.id <= 2}}

StoreHashes == {compute_template_hash(t) : t \in {x \in Templates : x.id <= 2}}

\* TemplateStore::store called with any template, address and hash
StoreTemplate ==
    \E t \in Templates, addr \in StoreAddrs, h \in StoreHashes :
        /\ TemplateStore_store(t, addr, h)
        /\ sargs' = Some(<<t, addr, h>>)
        /\ stored' = stored \cup {addr}
        /\ UNCHANGED <<accounts, prices, kv, pc, envVars, ops, last, receipt, obs, pageVars>>
        /\ UNCHANGED <<cpc, cval, cwire, cres, lay, nib>>

NextStore == StoreTemplate

SpecStore == Init /\ [][NextStore]_vars


\* ------------------------------------------------------ the codec: the wire

\* the sections a template may hold before the encoder's count is raised
MaxSections == 2

\* an address on the wire: 20 raw bytes
AddressLen == 20

RECURSIVE write_uint_be(_, _)
\* WriteExt::write_u16_be / write_u32_be / write_u64_be: nbytes, the most
\* significant first
write_uint_be(value, nbytes) ==
    IF nbytes = 0 THEN <<>>
    ELSE write_uint_be(value \div 256, nbytes - 1) \o <<value % 256>>

RECURSIVE read_uint_be(_)
\* the number a big-endian byte sequence stands for
read_uint_be(bs) ==
    IF bs = <<>> THEN 0
    ELSE read_uint_be(SubSeq(bs, 1, Len(bs) - 1)) * 256 + bs[Len(bs)]

\* version::encode_version: two bytes
encode_version(v) == write_uint_be(v, 2)

\* WriteExt::write_address / write_template_addr: the raw bytes
write_address(addr) == addr

\* WriteExt::write_string: one length byte, then the String's UTF-8 bytes
\* (a String is modelled as its UTF-8 bytes)
write_string(str) == <<Len(str)>> \o str

\* calldata::encode_calldata / inputdata::encode_inputdata: two length bytes,
\* then the bytes
encode_inputdata(data) == write_uint_be(Len(data), 2) \o data

\* a reader's result: the value read and the bytes the cursor has left
ReadOk(v, rest) == [ok |-> TRUE, v |-> v, rest |-> rest]

ReadErr(rest) == [ok |-> FALSE, v |-> <<>>, rest |-> rest]

\* ReadExt::read_bytes
read_bytes(b, n) ==
    IF Len(b) < n THEN ReadErr(b)
    ELSE ReadOk(SubSeq(b, 1, n), SubSeq(b, n + 1, Len(b)))

RECURSIVE from_utf8(_)
\* String::from_utf8: whether the bytes are UTF-8 (sequences of one and two
\* bytes; a lead byte of a longer sequence is outside the bytes modelled)
from_utf8(bs) ==
    IF bs = <<>> THEN TRUE
    ELSE IF bs[1] < 128 THEN from_utf8(Tail(bs))
    ELSE IF bs[1] >= 194 /\ bs[1] <= 223 /\ Len(bs) >= 2 /\ bs[2] >= 128 /\ bs[2] <= 191
    THEN from_utf8(Tail(Tail(bs)))
    ELSE FALSE

\* ReadExt::read_string: Err on a short read, else Ok(from_utf8(bytes))
read_string(b) ==
    LET l == read_bytes(b, 1) IN
    IF ~l.ok THEN [ok |-> FALSE, utf8 |-> FALSE, v |-> <<>>, rest |-> b]
    ELSE LET r == read_bytes(l.rest, l.v[1]) IN
         IF ~r.ok THEN [ok |-> FALSE, utf8 |-> FALSE, v |-> <<>>, rest |-> b]
         ELSE [ok |-> TRUE, utf8 |-> from_utf8(r.v), v |-> r.v, rest |-> r.rest]

\* a field decoder's result
FieldOk(v, rest) == [ok |-> TRUE, v |-> v, error |-> None, rest |-> rest]

FieldErr(kind, field) ==
    [ok |-> FALSE, v |-> <<>>, error |-> Some(<<kind, field>>), rest |-> <<>>]

\* version::decode_version
decode_version(b) ==
    LET r == read_bytes(b, 2) IN
    IF r.ok THEN FieldOk(read_uint_be(r.v), r.rest)
    ELSE FieldErr("NotEnoughBytes", "Version")

\* the blob reader behind decode_calldata / decode_inputdata
decode_blob(b, field) ==
    LET l == read_bytes(b, 2) IN
    IF ~l.ok THEN FieldErr("NotEnoughBytes", field)
    ELSE LET r == read_bytes(l.rest, read_uint_be(l.v)) IN
         IF r.ok THEN FieldOk(r.v, r.rest)
         ELSE FieldErr("NotEnoughBytes", field)

\* calldata::decode_calldata
decode_calldata(b) == decode_blob(b, "CallData")

\* inputdata::decode_inputdata
decode_inputdata(b) == decode_blob(b, "InputData")

\* a decoder's result: Ok(value) or Err(ParseError)
DecodeOk(value) == [ok |-> TRUE, value |-> Some(value), error |-> None]

DecodeErr(error) == [ok |-> FALSE, value |-> None, error |-> error]

\* ------------------------------------------------ the codec: Call and Spawn

\* call.rs with the verifydata blob written between the function and calldata
encode_call_with_verifydata(tx) ==
    encode_version(tx.version) \o write_address(tx.target) \o write_string(tx.func_name)
        \o encode_inputdata(<<>>) \o encode_inputdata(tx.calldata)

\* encode_call: version, target, function, calldata
encode_call(tx) ==
    encode_version(tx.version) \o write_address(tx.target) \o write_string(tx.func_name)
        \o encode_inputdata(tx.calldata)

\* call.rs decode_target
decode_target(b) ==
    LET r == read_bytes(b, AddressLen) IN
    IF r.ok THEN FieldOk(r.v, r.rest) ELSE FieldErr("NotEnoughBytes", "AccountAddr")

\* a string decoder that reports a short read for bytes that are not UTF-8
decode_string_errors_merged(b, field) ==
    LET r == read_string(b) IN
    IF r.ok /\ r.utf8 THEN FieldOk(r.v, r.rest)
    ELSE FieldErr("NotEnoughBytes", field)

\* decode_func / decode_name / decode_ctor: Ok(Ok(s)), Ok(Err(..)), Err(..)
decode_string(b, field) ==
    LET r == read_string(b) IN
    IF r.ok /\ r.utf8 THEN FieldOk(r.v, r.rest)
    ELSE IF r.ok THEN FieldErr("InvalidUTF8String", field)
    ELSE FieldErr("NotEnoughBytes", field)

\* call.rs decode_func
decode_func(b) == decode_string(b, "Function")

\* decode_call: each field in turn, the first error is returned
decode_call(b) ==
    LET version == decode_version(b) IN
    IF ~version.ok THEN DecodeErr(version.error)
    ELSE LET target == decode_target(version.rest) IN
    IF ~target.ok THEN DecodeErr(target.error)
    ELSE LET func_name == decode_func(target.rest) IN
    IF ~func_name.ok THEN DecodeErr(func_name.error)
    ELSE LET data == decode_calldata(func_name.rest) IN
    IF ~data.ok THEN DecodeErr(data.error)
    ELSE DecodeOk([version |-> version.v, target |-> target.v,
                   func_name |-> func_name.v, calldata |-> data.v])

\* spawn::encode: version, template, name, ctor, calldata
spawn_encode(s) ==
    encode_version(s.version) \o write_address(s.account.template_addr)
        \o write_string(s.account.name) \o write_string(s.ctor_name)
        \o encode_inputdata(s.calldata)

\* spawn.rs decode_template
decode_template(b) ==
    LET r == read_bytes(b, AddressLen) IN
    IF r.ok THEN FieldOk(r.v, r.rest) ELSE FieldErr("NotEnoughBytes", "Address")

\* spawn.rs decode_name
decode_name(b) == decode_string(b, "Name")

\* spawn.rs decode_ctor
decode_ctor(b) == decode_string(b, "Ctor")

\* spawn::decode
spawn_decode(b) ==
    LET version == decode_version(b) IN
    IF ~version.ok THEN DecodeErr(version.error)
    ELSE LET template_addr == decode_template(version.rest) IN
    IF ~template_addr.ok THEN DecodeErr(template_addr.error)
    ELSE LET name == decode_name(template_addr.rest) IN
    IF ~name.ok THEN DecodeErr(name.error)
    ELSE LET ctor_name == decode_ctor(name.rest) IN
    IF ~ctor_name.ok THEN DecodeErr(ctor_name.error)
    ELSE LET data == decode_inputdata(ctor_name.rest) IN
    IF ~data.ok THEN DecodeErr(data.error)
    ELSE DecodeOk([version |-> version.v,
                   account |-> [name |-> name.v, template_addr |-> template_addr.v],
                   ctor_name |-> ctor_name.v, calldata |-> data.v])

\* ------------------------------------------- the codec: the Deploy receipt

\* receipt::types::DEPLOY, the receipt's type byte
types_DEPLOY == 0

\* WriteExt::write_bool
write_bool(b) == IF b THEN <<1>> ELSE <<0>>

\* gas::encode_gas_used: u64, big-endian
encode_gas_used(gas_used) == write_uint_be(gas_used[1], 8)

RECURSIVE encode_log_entries(_)
\* each log entry: two length bytes, then the bytes
encode_log_entries(entries) ==
    IF entries = <<>> THEN <<>>
    ELSE write_uint_be(Len(Head(entries)), 2) \o Head(entries)
             \o encode_log_entries(Tail(entries))

\* logs::encode_logs: the count (u16), then the entries
encode_logs(entries) == write_uint_be(Len(entries), 2) \o encode_log_entries(entries)

\* the tag byte and the fields of a RuntimeError
encode_error_fields(err) ==
    IF err[1] = "OOG" THEN <<0>> ELSE <<1>> \o write_address(err[2])

\* receipt::encode_error: the error, then the logs
encode_error(err, entries) == encode_error_fields(err) \o encode_logs(entries)

\* encode_deploy: a failure is encoded with `let logs = Vec::new()`
encode_deploy(r) ==
    <<types_DEPLOY>> \o encode_version(r.version) \o write_bool(r.success)
        \o (IF r.success
            THEN write_address(r.addr[1]) \o encode_gas_used(r.gas_used)
                     \o encode_logs(r.logs)
            ELSE encode_error(r.error[1], <<>>))

RECURSIVE decode_log_entries(_, _)
\* `count` log entries read from b
decode_log_entries(b, count) ==
    IF count = 0 THEN ReadOk(<<>>, b)
    ELSE LET l == read_bytes(b, 2) IN
         IF ~l.ok THEN ReadErr(b)
         ELSE LET e == read_bytes(l.rest, read_uint_be(l.v)) IN
              IF ~e.ok THEN ReadErr(b)
              ELSE LET more == decode_log_entries(e.rest, count - 1) IN
                   IF ~more.ok THEN ReadErr(b)
                   ELSE ReadOk(<<e.v>> \o more.v, more.rest)

\* logs::decode_logs
decode_logs(b) ==
    LET n == read_bytes(b, 2) IN
    IF ~n.ok THEN ReadErr(b) ELSE decode_log_entries(n.rest, read_uint_be(n.v))

\* receipt::decode_error: the error and the logs
decode_error(b) ==
    LET tag == read_bytes(b, 1) IN
    IF ~tag.ok THEN ReadErr(b)
    ELSE IF tag.v[1] = 0
    THEN LET lg == decode_logs(tag.rest) IN
         IF lg.ok THEN ReadOk(<<<<"OOG">>, lg.v>>, lg.rest) ELSE ReadErr(b)
    ELSE LET addr == read_bytes(tag.rest, AddressLen) IN
         IF ~addr.ok THEN ReadErr(b)
         ELSE LET lg == decode_logs(addr.rest) IN
              IF lg.ok THEN ReadOk(<<<<"TemplateNotFound", addr.v>>, lg.v>>, lg.rest)
              ELSE ReadErr(b)

\* DeployReceipt::from_err
DeployReceipt_from_err(err, entries) ==
    [version |-> 0, success |-> FALSE, error |-> Some(err), addr |-> None,
     gas_used |-> None, logs |-> entries]

\* decode_deploy; an unwrap / expect on a short read panics
decode_deploy(b) ==
    LET ty == read_bytes(b, 1) IN
    IF ~ty.ok THEN <<"panic">>
    ELSE LET version == decode_version(ty.rest) IN
    IF ~version.ok THEN <<"panic">>
    ELSE LET is_success == read_bytes(version.rest, 1) IN
    IF ~is_success.ok THEN <<"panic">>
    ELSE IF is_success.v[1] = 0
    THEN LET e == decode_error(is_success.rest) IN
         IF ~e.ok THEN <<"panic">> ELSE DeployReceipt_from_err(e.v[1], e.v[2])
    ELSE LET addr == read_bytes(is_success.rest, AddressLen) IN
    IF ~addr.ok THEN <<"panic">>
    ELSE LET gas_used == read_bytes(addr.rest, 8) IN
    IF ~gas_used.ok THEN <<"panic">>
    ELSE LET lg == decode_logs(gas_used.rest) IN
    IF ~lg.ok THEN <<"panic">>
    ELSE [version |-> version.v, success |-> TRUE, error |-> None,
          addr |-> Some(addr.v), gas_used |-> Some(read_uint_be(gas_used.v)),
          logs |-> lg.v]

\* ------------------------------------------ the codec: the template envelope

\* the byte of a SectionKind, one per kind
SectionKind_code(kind) ==
    IF kind = "Code" THEN 1 ELSE IF kind = "Data" THEN 2
    ELSE IF kind = "Ctors" THEN 3 ELSE IF kind = "Header" THEN 4
    ELSE IF kind = "Api" THEN 5 ELSE IF kind = "Schema" THEN 6 ELSE 7

\* std::u16::MAX
u16_MAX == 65535

\* a usize as <<high, low>>: the bits above the low 16, and the low 16 bits
usize_of(n) == <<n \div 65536, n % 65536>>

\* std::u32::MAX as usize
u32_MAX == <<u16_MAX, u16_MAX>>

\* a < b on usize values
usize_less(a, b) == a[1] < b[1] \/ (a[1] = b[1] /\ a[2] < b[2])

\* `byte_size as u32`, then WriteExt::write_u32_be
write_u32_be(byte_size) ==
    write_uint_be(byte_size[1] % 65536, 2) \o write_uint_be(byte_size[2], 2)

\* finish: `assert!(section_count < std::u16::MAX as usize)`
section_count_ok(section_count) == section_count < u16_MAX

\* finish: `assert!(byte_size < std::u32::MAX as usize)`
byte_size_ok(byte_size) == usize_less(byte_size, u32_MAX)

\* preview::encode: kind (u8), byte_size (u32)
preview_encode(kind, byte_size) == <<SectionKind_code(kind)>> \o write_u32_be(byte_size)

RECURSIVE previews_of(_)
previews_of(buf) ==
    IF buf = <<>> THEN <<>>
    ELSE preview_encode(Head(buf)[1], usize_of(Len(Head(buf)[2]))) \o previews_of(Tail(buf))

RECURSIVE payloads_of(_)
payloads_of(buf) ==
    IF buf = <<>> THEN <<>> ELSE Head(buf)[2] \o payloads_of(Tail(buf))

\* an encoder that writes every preview before the first payload
finish_previews_first(section_buf) ==
    write_uint_be(Len(section_buf), 2) \o previews_of(section_buf) \o payloads_of(section_buf)

RECURSIVE drain_sizes_with_preview(_)
\* a loop whose byte_size counts the preview's own bytes
drain_sizes_with_preview(buf) ==
    IF buf = <<>> THEN <<>>
    ELSE preview_encode(Head(buf)[1], usize_of(Len(Head(buf)[2]) + 5)) \o Head(buf)[2]
             \o drain_sizes_with_preview(Tail(buf))

RECURSIVE drain(_)
\* finish's loop over section_buf.drain(..): the preview, then the section
drain(buf) ==
    IF buf = <<>> THEN <<>>
    ELSE preview_encode(Head(buf)[1], usize_of(Len(Head(buf)[2]))) \o Head(buf)[2]
             \o drain(Tail(buf))

\* SectionsEncoder::default: an empty section_buf
SectionsEncoder_default == <<>>

\* a section_buf_mut that starts a new buffer for every section
section_buf_mut_always_new(section_buf, kind) == Append(section_buf, <<kind, <<>>>>)

\* section_buf_mut: `entry(kind).or_insert_with(Vec::new)`; the buffer of a kind
\* that has one stays where it is
section_buf_mut(section_buf, kind) ==
    IF \E k \in 1..Len(section_buf) : section_buf[k][1] = kind THEN section_buf
    ELSE Append(section_buf, <<kind, <<>>>>)

\* encode_section: the section's encoder appends its bytes to the kind's buffer;
\* a section is <<kind, the bytes its encoder writes>>
encode_section(section_buf, section) ==
    LET buf == section_buf_mut(section_buf, section[1])
        at == CHOOSE k \in 1..Len(buf) :
                  /\ buf[k][1] = section[1]
                  /\ \A j \in (k + 1)..Len(buf) : buf[j][1] # section[1]
    IN  [k \in 1..Len(buf) |->
            IF k = at THEN <<buf[k][1], buf[k][2] \o section[2]>> ELSE buf[k]]

RECURSIVE SectionsEncoder_encode(_, _)
\* SectionsEncoder::encode: encode_section for each section, in order
SectionsEncoder_encode(section_buf, sections) ==
    IF sections = <<>> THEN section_buf
    ELSE SectionsEncoder_encode(encode_section(section_buf, Head(sections)), Tail(sections))

\* SectionsEncoder::finish: the assertions, the section count, then the loop
finish(section_buf) ==
    IF ~section_count_ok(Len(section_buf)) THEN <<"panic">>
    ELSE IF \E k \in 1..Len(section_buf) : ~byte_size_ok(usize_of(Len(section_buf[k][2])))
    THEN <<"panic">>
    ELSE write_uint_be(Len(section_buf), 2) \o drain(section_buf)

\* SectionsEncoder::finish on one section of `byte_size` bytes: the envelope up
\* to the section's first byte
finish_one(kind, byte_size) ==
    IF ~section_count_ok(1) THEN <<"panic">>
    ELSE IF ~byte_size_ok(byte_size) THEN <<"panic">>
    ELSE write_uint_be(1, 2) \o preview_encode(kind, byte_size)

\* ------------------------------------------------- the codec: what is coded

Versions == {0, 258}

WireAddrs == {[i \in 1..AddressLen |-> 171], [i \in 1..AddressLen |-> i]}

\* Strings: "", "a", "é"
Strings == {<<>>, <<97>>, <<195, 169>>}

Blobs == {<<>>, <<16, 0, 48>>}

Transactions ==
    [version : Versions, target : WireAddrs, func_name : Strings, calldata : Blobs]

SpawnAccounts ==
    [version : Versions,
     account : [name : Strings \ {<<>>}, template_addr : {[i \in 1..AddressLen |-> 171]}],
     ctor_name : {<<>>, <<105>>}, calldata : Blobs]

ReceiptLogs == {<<>>, <<<<1, 2>>>>, <<<<1, 2>>, <<>>>>}

\* the well-formed DeployReceipts: of a success and of a failure
DeployReceipts ==
    {[version |-> 0, success |-> TRUE, error |-> None, addr |-> Some(a),
      gas_used |-> Some(g), logs |-> lg] :
        a \in WireAddrs, g \in {100, 258}, lg \in ReceiptLogs}
    \cup {DeployReceipt_from_err(e, lg) :
              e \in {<<"OOG">>, <<"TemplateNotFound", [i \in 1..AddressLen |-> 171]>>},
              lg \in ReceiptLogs}

SectionKinds == {"Code", "Data", "Ctors"}

SectionBodies == {<<>>, <<7>>, <<8, 9>>}

\* the encoder's section_buf: an ordered map from kind to bytes
SectionBufs ==
    UNION {{b \in [1..n -> SectionKinds \X SectionBodies] :
               \A i, j \in 1..n : i # j => b[i][1] # b[j][1]} : n \in 0..MaxSections}

\* the SectionKind variants, in the order of encode_section's match
AllSectionKinds == <<"Api", "Header", "Code", "Data", "Ctors", "Schema", "Deploy">>

\* n sections whose kinds run through every SectionKind, again and again
KindCycle(start, n) ==
    [i \in 1..n |-> <<AllSectionKinds[((start + i - 2) % Len(AllSectionKinds)) + 1], <<i>>>>]

\* the sections handed to the encoder: short lists in which a kind may come
\* twice, and lists longer than the number of kinds
SectionLists ==
    UNION {[1..n -> SectionKinds \X SectionBodies] : n \in 0..(MaxSections + 1)}
      \cup {KindCycle(s, Len(AllSectionKinds) + r) :
                s \in 1..Len(AllSectionKinds), r \in 0..MaxSections}

\* section sizes around what a u32 holds: 2^32 - 2, 2^32 - 1, 2^32
LargeSizes == {<<u16_MAX, u16_MAX - 1>>, u32_MAX, <<u16_MAX + 1, 0>>}

\* the fields of a message in wire order: <<field, bytes on the wire, is a string>>
WireFields(tag, msg) ==
    IF tag = "call"
    THEN << <<"Version", 2, FALSE>>, <<"AccountAddr", AddressLen, FALSE>>,
            <<"Function", 1 + Len(msg.func_name), TRUE>>,
            <<"CallData", 2 + Len(msg.calldata), FALSE>> >>
    ELSE << <<"Version", 2, FALSE>>, <<"Address", AddressLen, FALSE>>,
            <<"Name", 1 + Len(msg.account.name), TRUE>>,
            <<"Ctor", 1 + Len(msg.ctor_name), TRUE>>,
            <<"InputData", 2 + Len(msg.calldata), FALSE>> >>

RECURSIVE FieldEnd(_, _)
\* the offset on the wire at which field k ends
FieldEnd(fields, k) == IF k = 0 THEN 0 ELSE FieldEnd(fields, k - 1) + fields[k][2]

\* the input as coded: what it is, and what was done to its bytes since
\* (bad: the string field made invalid, 0 for none; cut: the length the bytes
\* were cut to, -1 for none)
Coded(tag, msg) == [tag |-> tag, msg |-> msg, bad |-> 0, cut |-> -1]

\* ------------------------------------------------ the codec: its operations

CodecIdle == UNCHANGED <<storeVars, accounts, prices, kv, pc, envVars, ops, last, receipt,
                         obs, pageVars, sargs, stored, lay, nib>>

\* encode_call applied to a Transaction
EncodeCall ==
    \E tx \in Transactions :
        /\ cpc = "idle"
        /\ cpc' = "encoded"
        /\ cval' = Some(Coded("call", tx))
        /\ cwire' = encode_call(tx)
        /\ cres' = None
        /\ CodecIdle

\* spawn::encode applied to a SpawnAccount
EncodeSpawn ==
    \E s \in SpawnAccounts :
        /\ cpc = "idle"
        /\ cpc' = "encoded"
        /\ cval' = Some(Coded("spawn", s))
        /\ cwire' = spawn_encode(s)
        /\ cres' = None
        /\ CodecIdle

\* encode_deploy applied to a DeployReceipt
EncodeDeploy ==
    \E r \in DeployReceipts :
        /\ cpc = "idle"
        /\ cpc' = "encoded"
        /\ cval' = Some(Coded("deploy", r))
        /\ cwire' = encode_deploy(r)
        /\ cres' = None
        /\ CodecIdle

\* SectionsEncoder::finish applied to the sections encoded so far
Finish ==
    \E b \in SectionBufs :
        /\ cpc = "idle"
        /\ cpc' = "encoded"
        /\ cval' = Some(Coded("sections", b))
        /\ cwire' = finish(b)
        /\ cres' = None
        /\ CodecIdle

\* SectionsEncoder::encode on a new encoder, then finish
EncodeSections ==
    \E sections \in SectionLists :
        /\ cpc = "idle"
        /\ cpc' = "encoded"
        /\ cval' = Some(Coded("encoder", sections))
        /\ cwire' = finish(SectionsEncoder_encode(SectionsEncoder_default, sections))
        /\ cres' = None
        /\ CodecIdle

\* SectionsEncoder::finish applied to one section too large to write out here
FinishLarge ==
    \E kind \in SectionKinds, byte_size \in LargeSizes :
        /\ cpc = "idle"
        /\ cpc' = "encoded"
        /\ cval' = Some(Coded("section", <<kind, byte_size>>))
        /\ cwire' = finish_one(kind, byte_size)
        /\ cres' = None
        /\ CodecIdle

\* the bytes reach the decoder cut short, or with a string's first byte
\* replaced by one that no UTF-8 text holds
Tamper ==
    /\ cpc = "encoded"
    /\ cval[1].tag \in {"call", "spawn"}
    /\ LET fields == WireFields(cval[1].tag, cval[1].msg) IN
       \E bad \in 0..Len(fields), cut \in -1..(Len(cwire) - 1) :
          /\ bad # 0 \/ cut # -1
          /\ bad # 0 => (fields[bad][3] /\ fields[bad][2] > 1)
          /\ LET at == IF bad = 0 THEN 0 ELSE FieldEnd(fields, bad - 1) + 2
                 spoiled == [i \in 1..Len(cwire) |-> IF i = at THEN 255 ELSE cwire[i]]
             IN  cwire' = IF cut = -1 THEN spoiled ELSE SubSeq(spoiled, 1, cut)
          /\ cval' = Some([cval[1] EXCEPT !.bad = bad, !.cut = cut])
    /\ cpc' = "tampered"
    /\ UNCHANGED cres
    /\ CodecIdle

\* decode_call applied to the bytes
DecodeCall ==
    /\ cpc \in {"encoded", "tampered"}
    /\ cval[1].tag = "call"
    /\ cpc' = "decoded"
    /\ cres' = Some(decode_call(cwire))
    /\ UNCHANGED <<cval, cwire>>
    /\ CodecIdle

\* spawn::decode applied to the bytes
DecodeSpawn ==
    /\ cpc \in {"encoded", "tampered"}
    /\ cval[1].tag = "spawn"
    /\ cpc' = "decoded"
    /\ cres' = Some(spawn_decode(cwire))
    /\ UNCHANGED <<cval, cwire>>
    /\ CodecIdle

\* decode_deploy applied to the bytes encode_deploy produced
DecodeDeploy ==
    /\ cpc = "encoded"
    /\ cval[1].tag = "deploy"
    /\ cpc' = "decoded"
    /\ cres' = Some(decode_deploy(cwire))
    /\ UNCHANGED <<cval, cwire>>
    /\ CodecIdle

NextCodec ==
    \/ EncodeCall
    \/ EncodeSpawn
    \/ EncodeDeploy
    \/ Finish
    \/ EncodeSections
    \/ FinishLarge
    \/ Tamper
    \/ DecodeCall
    \/ DecodeSpawn
    \/ DecodeDeploy

SpecCodec == Init /\ [][NextCodec]_vars


\* ------------------------------------------------------------ FixedLayout

\* variables a layout holds before the builder is given more
MaxVars == 3

\* RawVar::new
RawVar_new(id, offset, byte_size) == [id |-> id, offset |-> offset, byte_size |-> byte_size]

\* FixedLayoutBuilder::set_first
set_first(b, id) == [b EXCEPT !.first = Some(id)]

\* FixedLayoutBuilder::push: the next id, at the offset after the last variable
push(b, byte_size) ==
    [b EXCEPT !.vars = Append(@, RawVar_new(b.first[1] + Len(b.vars), b.next_offset,
                                            byte_size)),
              !.next_offset = @ + byte_size,
              !.pushed = Append(@, byte_size)]

RECURSIVE extend_from_slice(_, _)
\* FixedLayoutBuilder::extend_from_slice: push, for each width of the slice
extend_from_slice(b, slice) ==
    IF slice = <<>> THEN b ELSE extend_from_slice(push(b, Head(slice)), Tail(slice))

\* FixedLayout::new
FixedLayout_new(layout_vars) ==
    IF layout_vars = <<>> THEN [first |-> None, vars |-> <<>>]
    ELSE [first |-> Some(layout_vars[1].id), vars |-> layout_vars]

\* FixedLayoutBuilder::build
build(b) == FixedLayout_new(b.vars)

\* impl From<&[u32]> for FixedLayout
FixedLayout_from(slice) ==
    IF Len(slice) > 0
    THEN build(extend_from_slice(set_first(NewBuilder, 0), slice))
    ELSE build(NewBuilder)

\* a lookup that panicked, and one that returned
LookupPanic == [panic |-> TRUE]

Found(x) == [panic |-> FALSE, value |-> x]

\* an index counted from id 0, whatever the first id is
var_index_from_zero(layout, id) ==
    IF layout.first = None THEN LookupPanic
    ELSE IF ~(id < Len(layout.vars)) THEN LookupPanic
    ELSE Found(id)

\* an index that stops at the last variable
var_index_saturating(layout, id) ==
    IF layout.first = None THEN LookupPanic
    ELSE IF ~(id >= layout.first[1]) THEN LookupPanic
    ELSE IF ~(id - layout.first[1] < Len(layout.vars)) THEN Found(Len(layout.vars) - 1)
    ELSE Found(id - layout.first[1])

\* FixedLayout::var_index: first() unwraps, then the two assertions
var_index(layout, id) ==
    IF layout.first = None THEN LookupPanic
    ELSE IF ~(id >= layout.first[1]) THEN LookupPanic
    ELSE IF ~(id - layout.first[1] < Len(layout.vars)) THEN LookupPanic
    ELSE Found(id - layout.first[1])

\* FixedLayout::get: &self.vars[index]
FixedLayout_get(layout, id) ==
    IF var_index(layout, id).panic THEN LookupPanic
    ELSE Found(layout.vars[var_index(layout, id).value + 1])

\* a try_get that answers None where var_index panics
FixedLayout_try_get_total(layout, id) ==
    IF layout.first = None \/ id < layout.first[1]
          \/ id >= layout.first[1] + Len(layout.vars)
    THEN Found(None)
    ELSE Found(Some(layout.vars[id - layout.first[1] + 1]))

\* FixedLayout::try_get: self.vars.get(index)
FixedLayout_try_get(layout, id) ==
    IF var_index(layout, id).panic THEN LookupPanic
    ELSE Found(Some(layout.vars[var_index(layout, id).value + 1]))

\* the first ids, widths and slices handed to the builder, the ids looked up
FirstIds == {0, 3}

Widths == {10, 20}

Slices == {<<>>, <<30>>, <<30, 40>>}

LookupIds == 0..(3 + MaxVars)

LayoutIdle == UNCHANGED <<storeVars, accounts, prices, kv, pc, envVars, ops, last, receipt,
                          obs, pageVars, sargs, stored, cpc, cval, cwire, cres, nib>>

\* builder.set_first(Id(f)), before any variable is pushed
SetFirst ==
    \E f \in FirstIds :
        /\ lay.layout = None
        /\ lay.first = None
        /\ lay' = set_first(lay, f)
        /\ LayoutIdle

\* builder.push(w)
Push ==
    \E w \in Widths :
        /\ lay.layout = None
        /\ lay.first # None
        /\ Len(lay.vars) < MaxVars
        /\ lay' = push(lay, w)
        /\ LayoutIdle

\* builder.extend_from_slice(slice)
ExtendFromSlice ==
    \E slice \in Slices :
        /\ lay.layout = None
        /\ lay.first # None
        /\ Len(lay.vars) + Len(slice) <= MaxVars
        /\ lay' = extend_from_slice(lay, slice)
        /\ LayoutIdle

\* builder.build()
Build ==
    /\ lay.layout = None
    /\ lay' = [lay EXCEPT !.layout = Some(build(lay))]
    /\ LayoutIdle

\* a slice of widths turned into a layout
FromSlice ==
    \E slice \in Slices :
        /\ lay = NewBuilder
        /\ lay' = [(IF Len(slice) > 0
                    THEN extend_from_slice(set_first(NewBuilder, 0), slice)
                    ELSE NewBuilder)
                   EXCEPT !.layout = Some(FixedLayout_from(slice))]
        /\ LayoutIdle

\* layout.get(Id(id))
Get ==
    \E id \in LookupIds :
        /\ lay.layout # None
        /\ lay' = [lay EXCEPT !.got = Some([op |-> "get", id |-> id,
                                           res |-> FixedLayout_get(lay.layout[1], id)])]
        /\ LayoutIdle

\* layout.try_get(Id(id))
TryGet ==
    \E id \in LookupIds :
        /\ lay.layout # None
        /\ lay' = [lay EXCEPT !.got = Some([op |-> "try_get", id |-> id,
                                           res |-> FixedLayout_try_get(lay.layout[1], id)])]
        /\ LayoutIdle

NextLayout ==
    \/ SetFirst
    \/ Push
    \/ ExtendFromSlice
    \/ Build
    \/ FromSlice
    \/ Get
    \/ TryGet

SpecLayout == Init /\ [][NextLayout]_vars

\* ------------------------------------------------------------- NibbleIter

\* bytes of the slices the iterator is made over
MaxBytes == 3

\* calls of next made after the iterator has run out
MaxExtraCalls == 2

\* NibbleIter::new
NibbleIter_new(data) ==
    [position |-> 0, length |-> Len(data), no_more_bytes |-> FALSE,
     last_byte |-> None, nibbles_read |-> 0]

\* NibbleIter::is_byte_aligned
is_byte_aligned(iter) == iter.nibbles_read % 2 = 0

\* `(byte & 0xF0) >> 4`
lnibble(byte) == byte \div 16

\* `byte & 0x0F`
rnibble(byte) == byte % 16

\* a next that hands out the right nibble of a byte before the left one
NibbleIter_next_right_first(iter, data) ==
    IF iter.last_byte = None
    THEN IF iter.no_more_bytes THEN [iter |-> iter, item |-> None]
         ELSE IF iter.position >= iter.length
         THEN [iter |-> [iter EXCEPT !.no_more_bytes = TRUE], item |-> None]
         ELSE [iter |-> [iter EXCEPT !.position = @ + 1,
                                     !.last_byte = Some(data[iter.position + 1]),
                                     !.nibbles_read = @ + 1],
               item |-> Some(rnibble(data[iter.position + 1]))]
    ELSE [iter |-> [iter EXCEPT !.last_byte = None, !.nibbles_read = @ + 1],
          item |-> Some(lnibble(iter.last_byte[1]))]

\* Iterator::next for NibbleIter: the iterator afterwards and the item returned
NibbleIter_next(iter, data) ==
    IF iter.last_byte = None
    THEN IF iter.no_more_bytes THEN [iter |-> iter, item |-> None]
         ELSE IF iter.position >= iter.length
         THEN [iter |-> [iter EXCEPT !.no_more_bytes = TRUE], item |-> None]
         ELSE [iter |-> [iter EXCEPT !.position = @ + 1,
                                     !.last_byte = Some(data[iter.position + 1]),
                                     !.nibbles_read = @ + 1],
               item |-> Some(lnibble(data[iter.position + 1]))]
    ELSE [iter |-> [iter EXCEPT !.last_byte = None, !.nibbles_read = @ + 1],
          item |-> Some(rnibble(iter.last_byte[1]))]

\* the bytes of the slices
NibbleBytes == {0, 48, 159, 255}

NibbleDatas == UNION {[1..n -> NibbleBytes] : n \in 0..MaxBytes}

NibbleIdle == UNCHANGED <<storeVars, accounts, prices, kv, pc, envVars, ops, last, receipt,
                          obs, pageVars, sargs, stored, cpc, cval, cwire, cres, lay>>

\* NibbleIter::new(&data)
NewIter ==
    \E data \in NibbleDatas :
        /\ nib = None
        /\ nib' = Some([data |-> data, iter |-> NibbleIter_new(data), items |-> <<>>])
        /\ NibbleIdle

\* iter.next(); `items` keeps what each call returned
NextNibble ==
    /\ nib # None
    /\ Len(nib[1].items) < 2 * Len(nib[1].data) + MaxExtraCalls
    /\ nib' = Some([nib[1] EXCEPT
                      !.iter = NibbleIter_next(nib[1].iter, nib[1].data).iter,
                      !.items = Append(@, NibbleIter_next(nib[1].iter, nib[1].data).item)])
    /\ NibbleIdle

NextNibbles ==
    \/ NewIter
    \/ NextNibble

SpecNibble == Init /\ [][NextNibbles]_vars


\* ------------------------------------------------------------------ claims

\* the template a template address stands for
TemplateAt(addr) == CHOOSE t \in Templates : compute_template_addr(t) = addr

\* C1: gas gate.  A deploy whose gas limit is below the deploy price of its
\* message returns the OOG receipt (success = FALSE) and changes nothing: the
\* template store (addr -> hash, hash -> bytes), the account store, the price
\* cache and the storage backend are what they were before the call.
C1_DeployGasGate ==
    [][(last'.kind = "deploy" /\ ops' = ops + 1
            /\ last'.gas < price_deploy(TemplateAt(last'.template[1])))
        => (/\ receipt' = DeployReceipt_new_oog
            /\ ~receipt'.success
            /\ receipt'.error = Some(<<"OOG">>)
            /\ hash' = hash
            /\ bytes' = bytes
            /\ accounts' = accounts
            /\ prices' = prices
            /\ kv' = kv)]_vars

\* a deploy below the price was refused while a template was in the store
C1_Witness ==
    /\ last.kind = "deploy"
    /\ last.gas < price_deploy(TemplateAt(last.template[1]))
    /\ receipt = DeployReceipt_new_oog
    /\ DOMAIN hash # {}
    /\ last.template[1] \notin DOMAIN hash

\* the template the last Spawn / Call / Verify message resolves to, if any
LastTemplate ==
    IF last.kind = "spawn" THEN TemplateStore_load(last.template[1])
    ELSE IF last.kind \in {"call", "verify"} THEN env_account_template(last.target[1])
    ELSE None

\* the last message breaks the constructor rule
LastBreaksCtorRule ==
    /\ LastTemplate # None
    /\ \/ last.kind = "spawn" /\ ~is_ctor(LastTemplate[1], last.func)
       \/ last.kind \in {"call", "verify"} /\ is_ctor(LastTemplate[1], last.func)

\* C2: constructor rule.  A Spawn naming a function that is not in the template's
\* Ctors, and a Call naming one that is, end with FuncNotAllowed and no guest
\* function is invoked; FuncNotAllowed is reported in no other case.
C2_ConstructorRule ==
    /\ LastBreaksCtorRule =>
          /\ pc = "idle"
          /\ ~receipt.success
          /\ receipt.error = Some(<<"FuncNotAllowed", last.func>>)
          /\ obs.invoked = <<>>
    /\ (receipt.error # None /\ receipt.error[1][1] = "FuncNotAllowed")
          => LastBreaksCtorRule

\* a Call of a constructor was rejected
C2_Witness ==
    /\ last.kind = "call"
    /\ LastBreaksCtorRule
    /\ receipt.error = Some(<<"FuncNotAllowed", last.func>>)

StorageImports == {"store160", "load160", "get32", "set32", "get64", "set64"}

\* C4: a storage host import called while the mode is AccessDenied fails the
\* guest call (FuncFailed), hands no value to the guest and leaves the overlay
\* and the backend as they were; an import that succeeds ran under FullAccess.
C4_AccessDenied ==
    [][obs'.import \in StorageImports =>
          /\ mode = "AccessDenied" =>
                /\ pc' = "idle"
                /\ ~receipt'.success
                /\ receipt'.error = Some(<<"FuncFailed", RunningFunc>>)
                /\ overlay' = overlay
                /\ kv' = kv
                /\ obs'.read = None
          /\ pc' = pc => mode = "FullAccess"]_vars

\* a storage import was called under AccessDenied and the call failed
C4_Witness ==
    /\ obs.import \in StorageImports
    /\ mode = "AccessDenied"
    /\ pc = "idle"
    /\ receipt.error # None
    /\ receipt.error[1][1] = "FuncFailed"

C8_ReceiptAlways == last.accepted => (pc # "aborted" /\ receipt.kind # "panic")

\* C9: a call or verify of a target with no account returns the failure receipt
\* AccountNotFound(target), and no guest code is invoked.
C9_AccountNotFound ==
    (last.kind \in {"call", "verify"} /\ last.target[1] \notin DOMAIN accounts)
        => /\ receipt = CallReceipt_from_err(<<"AccountNotFound", last.target[1]>>, <<>>)
           /\ obs.invoked = <<>>

\* C10: storage is committed exactly when an execution succeeds.  An execution
\* that ends in a failure commits nothing (the backend is unchanged, whatever
\* the guest wrote); one that succeeds commits once, and the writes are in the
\* backend under the State its receipt reports; no other step changes the backend.
C10_CommitOnSuccessOnly ==
    [][/\ (pc' = "idle" /\ receipt'.kind \in {"call", "spawn"} /\ ~receipt'.success)
            => (kv' = kv /\ obs'.commits = 0)
       /\ (pc' = "idle" /\ receipt'.kind \in {"call", "spawn"} /\ receipt'.success)
            => /\ pc = "func"
               /\ obs.commits = 0
               /\ obs'.commits = 1
               /\ receipt'.state # None
               /\ \A i \in DOMAIN overlay :
                     /\ <<cur.target, receipt'.state[1], i>> \in DOMAIN kv'
                     /\ kv'[<<cur.target, receipt'.state[1], i>>] = overlay[i]
       /\ kv' # kv => (pc' = "idle" /\ receipt'.success)]_vars

\* an execution failed after the guest had written to the storage
C10_Witness ==
    /\ pc = "idle"
    /\ receipt.kind \in {"call", "spawn"}
    /\ ~receipt.success
    /\ overlay # EmptyMap
    /\ obs.commits = 0

\* C5: storage isolation.  A write or commit on one address changes no read on
\* another address, and every read returns what was last committed for the
\* reader's own address and page (None when nothing was).
C5_StorageIsolation ==
    [][\A i \in Storages : (plast' # None /\ plast'[1][2] = i) =>
          /\ \A j \in Storages : \A p \in PageIndexes :
                StorageAddr(j) # StorageAddr(i)
                    => read_page(j, p)' = read_page(j, p)
          /\ \A j \in Storages : \A p \in PageIndexes :
                read_page(j, p)' =
                    IF <<StorageAddr(j), p>> \in DOMAIN pcommitted'
                    THEN Some(pcommitted'[<<StorageAddr(j), p>>])
                    ELSE None]_vars

\* the two addresses committed different contents for page 0
C5_Witness ==
    /\ read_page(1, 0) = Some(<<10, 20, 30>>)
    /\ read_page(3, 0) = Some(<<40, 50, 60>>)

\* C6: write_page through one instance changes no other instance's reads or
\* uncommitted count (and nothing in the backend); after the writer's commit
\* the written pages are in the backend, every instance of that address reads
\* them, and the writer has no uncommitted page.
C6_NoReadBeforeCommit ==
    [][\A i \in Storages : (plast' # None /\ plast'[1][2] = i) =>
          IF plast'[1][1] = "write_page"
          THEN /\ pkv' = pkv
               /\ \A j \in Storages \ {i} :
                     /\ uncommitted_len(j)' = uncommitted_len(j)
                     /\ \A p \in PageIndexes : read_page(j, p)' = read_page(j, p)
          ELSE /\ uncommitted_len(i)' = 0
               /\ \A p \in DOMAIN pending[i] :
                     \A j \in Storages :
                         StorageAddr(j) = StorageAddr(i)
                             => read_page(j, p)' = Some(pending[i][p])]_vars

\* instance 1 committed page 0 and instance 2 reads it
C6_Witness ==
    /\ plast = Some(<<"commit", 1, 0, <<>>>>)
    /\ read_page(2, 0) = Some(<<10, 20, 30>>)
    /\ uncommitted_len(1) = 0
    /\ uncommitted_len(3) = 1

\* C11: a failure receipt carries every log entry the guest emitted in the
\* execution before the failure point, in emission order, the entries of the
\* svm_alloc phase included.
C11_FailureCarriesLogs ==
    (pc = "idle" /\ receipt.kind \in {"call", "spawn"} /\ ~receipt.success)
        => receipt.logs = obs.emitted

\* C12: templates are immutable.  Once an address resolves to a template, every
\* later deploy, spawn, call and verify (and every step of an execution) leaves
\* load(addr) returning the same template.
C12_TemplatesImmutable ==
    [][\A a \in TemplateAddrs :
          TemplateStore_load(a) # None => TemplateStore_load(a)' = TemplateStore_load(a)]_vars

\* a second template was deployed while an earlier one stayed loadable
C12_Witness ==
    /\ last.kind = "deploy"
    /\ receipt.success
    /\ \E a \in TemplateAddrs :
          /\ a # last.template[1]
          /\ TemplateStore_load(a) = Some(TemplateAt(a))
    /\ TemplateStore_load(last.template[1]) = Some(TemplateAt(last.template[1]))

\* C14: a deploy whose gas limit reaches the deploy price succeeds: the receipt
\* has success = TRUE, the address compute_template_addr(template) and gas_used
\* equal to the price (not the limit), and the template is loadable under that
\* address afterwards.
C14_DeploySucceeds ==
    (last.kind = "deploy" /\ last.gas >= price_deploy(TemplateAt(last.template[1])))
        => LET t == TemplateAt(last.template[1]) IN
           /\ receipt.kind = "deploy"
           /\ receipt.success
           /\ receipt.error = None
           /\ receipt.addr = Some(compute_template_addr(t))
           /\ receipt.gas_used = Some(price_deploy(t))
           /\ TemplateStore_load(compute_template_addr(t)) = Some(t)

\* a deploy with more gas than the price succeeded
C14_Witness ==
    /\ last.kind = "deploy"
    /\ last.gas > price_deploy(TemplateAt(last.template[1]))
    /\ receipt.success
    /\ receipt.gas_used = Some(price_deploy(TemplateAt(last.template[1])))
    /\ TemplateStore_load(last.template[1]) # None

\* the Spawn message names a deployed template and an exported constructor of it
SpawnPriced(l) ==
    /\ l.kind = "spawn"
    /\ TemplateStore_load(l.template[1]) # None
    /\ is_ctor(TemplateStore_load(l.template[1])[1], l.func)
    /\ l.func \in TemplateStore_load(l.template[1])[1].exports
    /\ TemplateStore_load(l.template[1])[1].gas_mode = "Fixed"

C16_PriceCacheAppendOnly ==
    [][\A a \in TemplateAddrs :
          /\ a \in DOMAIN prices => (a \in DOMAIN prices' /\ prices'[a] = prices[a])
          /\ (a \notin DOMAIN prices /\ a \in DOMAIN prices')
                => (last'.kind = "spawn" /\ last'.template = Some(a) /\ ops' = ops + 1)]_vars

\* a second spawn of a template found its prices in the cache
C16_Witness ==
    /\ last.kind = "spawn"
    /\ last.template[1] \in DOMAIN prices
    /\ \E a \in DOMAIN accounts : accounts[a].template_addr = last.template[1]
    /\ receipt.kind = "spawn"
    /\ receipt.error = Some(<<"OOG">>)

\* C13: TemplateStore::store(template, addr, hash) followed by load(addr) returns
\* that template; load of an address never stored returns None; and the same
\* store made a second time leaves both maps (addr -> hash, hash -> bytes) as
\* they were.
C13_StoreThenLoad ==
    [][/\ \A t \in Templates, addr \in StoreAddrs, h \in StoreHashes :
            sargs' = Some(<<t, addr, h>>) => TemplateStore_load(addr)' = Some(t)
       /\ \A addr \in StoreAddrs : addr \notin stored' => TemplateStore_load(addr)' = None
       /\ (sargs # None /\ sargs' = sargs) => (hash' = hash /\ bytes' = bytes)]_vars

\* an address was stored a second time, with another template and hash, while
\* another address was never stored
C13_Witness ==
    /\ sargs # None
    /\ sargs[1][2] \in DOMAIN hash
    /\ Cardinality(DOMAIN bytes) = 2
    /\ stored # StoreAddrs
    /\ TemplateStore_load(sargs[1][2]) = Some(sargs[1][1])

\* the bytes reached the decoder as the encoder wrote them
Untampered == cval[1].bad = 0 /\ cval[1].cut = -1

\* C17: transaction codec round trip.  decode_call(encode_call(tx)) = tx for
\* every well-formed Call Transaction, and spawn::decode(spawn::encode(s)) = s
\* for every well-formed SpawnAccount.
C17_TransactionRoundTrip ==
    (cpc = "decoded" /\ cval[1].tag \in {"call", "spawn"} /\ Untampered)
        => cres = Some(DecodeOk(cval[1].msg))

\* a Call with a version above 255, a function name that is not ASCII and
\* calldata came back from the decoder
C17_Witness ==
    /\ cpc = "decoded"
    /\ cval[1].tag = "call"
    /\ Untampered
    /\ cval[1].msg.version = 258
    /\ cval[1].msg.func_name = <<195, 169>>
    /\ cval[1].msg.calldata # <<>>
    /\ cres[1].ok

\* C18: receipt codec round trip.  Decoding encode_deploy(r) yields r, field by
\* field, for every well-formed DeployReceipt r: a success with its address,
\* gas_used and logs, or a failure with its error and logs.
C18_DeployReceiptRoundTrip ==
    (cpc = "decoded" /\ cval[1].tag = "deploy") => cres = Some(cval[1].msg)

\* the first field in wire order that the cut leaves incomplete
FirstIncomplete(fields, cut) ==
    CHOOSE k \in 1..Len(fields) : FieldEnd(fields, k - 1) <= cut /\ cut < FieldEnd(fields, k)

\* the ParseError of the first field in wire order that is incomplete or not UTF-8
FirstFieldError(c) ==
    LET fields == WireFields(c.tag, c.msg) IN
    IF c.bad # 0 /\ (c.cut = -1 \/ FieldEnd(fields, c.bad) <= c.cut)
    THEN <<"InvalidUTF8String", fields[c.bad][1]>>
    ELSE <<"NotEnoughBytes", fields[FirstIncomplete(fields, c.cut)][1]>>

\* C19: decoding a Call or a Spawn from bytes that end before a field is complete
\* returns NotEnoughBytes tagged with the first incomplete field in wire order, a
\* string field whose bytes are not UTF-8 returns InvalidUTF8String tagged with
\* that field (the fields are decoded in wire order: when both happen, the error
\* of the earlier field is returned), and no value is returned with an error.
C19_DecodeErrors ==
    (cpc = "decoded" /\ cval[1].tag \in {"call", "spawn"} /\ ~Untampered)
        => /\ ~cres[1].ok
           /\ cres[1].value = None
           /\ cres[1].error = Some(FirstFieldError(cval[1]))

\* a Spawn whose constructor name is not UTF-8 and whose calldata is cut short
\* was refused for the name
C19_Witness ==
    /\ cpc = "decoded"
    /\ cval[1].tag = "spawn"
    /\ cval[1].bad = 4
    /\ cval[1].cut # -1
    /\ cres[1].error = Some(<<"InvalidUTF8String", "Ctor">>)

RECURSIVE BodiesBefore(_, _)
\* the bytes of the sections before section k
BodiesBefore(buf, k) ==
    IF k <= 1 THEN 0 ELSE BodiesBefore(buf, k - 1) + Len(buf[k - 1][2])

\* the envelope holds section k's preview at `p` and its body at `b`
SectionAt(buf, k, p, b) ==
    /\ cwire[p + 1] = SectionKind_code(buf[k][1])
    /\ read_uint_be(SubSeq(cwire, p + 2, p + 5)) = Len(buf[k][2])
    /\ SubSeq(cwire, b + 1, b + Len(buf[k][2])) = buf[k][2]

\* the envelope starts with the section count and has room for N previews and bodies
EnvelopeHead(buf) ==
    /\ Len(cwire) = 2 + 5 * Len(buf) + BodiesBefore(buf, Len(buf) + 1)
    /\ read_uint_be(SubSeq(cwire, 1, 2)) = Len(buf)

\* C20 as stated: the envelope is the u16 section count, then all N previews
\* (kind: u8, byte_size: u32), then all N payloads, in the same order.
C20_PreviewsThenPayloads ==
    (cpc = "encoded" /\ cval[1].tag = "sections")
        => LET buf == cval[1].msg IN
           /\ EnvelopeHead(buf)
           /\ \A k \in 1..Len(buf) :
                 SectionAt(buf, k, 2 + 5 * (k - 1), 2 + 5 * Len(buf) + BodiesBefore(buf, k))

\* C20, amended: the envelope is the u16 section count, then for each section in
\* order its preview (kind: u8, byte_size: u32) followed at once by its payload.
C20_PreviewThenPayloadEach ==
    (cpc = "encoded" /\ cval[1].tag = "sections")
        => LET buf == cval[1].msg IN
           /\ EnvelopeHead(buf)
           /\ \A k \in 1..Len(buf) :
                 SectionAt(buf, k, 2 + 5 * (k - 1) + BodiesBefore(buf, k),
                           2 + 5 * k + BodiesBefore(buf, k))

\* two sections were encoded, the first with a payload
C20_Witness ==
    /\ cpc = "encoded"
    /\ cval[1].tag = "sections"
    /\ Len(cval[1].msg) = 2
    /\ cval[1].msg[1][2] # <<>>
    /\ cval[1].msg[2][2] # <<>>

RECURSIVE PreviewSizeSum(_, _)
\* the sum of the byte_size fields of the first k previews of the envelope
PreviewSizeSum(buf, k) ==
    IF k = 0 THEN 0
    ELSE PreviewSizeSum(buf, k - 1)
             + read_uint_be(SubSeq(cwire, 2 + 5 * (k - 1) + BodiesBefore(buf, k) + 2,
                                   2 + 5 * (k - 1) + BodiesBefore(buf, k) + 5))

\* C21: section preview sum.  In the envelope finish produces for N sections the
\* byte_size fields of the N previews add up to the number of payload bytes, and
\* the envelope is 2 + N * 5 + that sum bytes long (5: the length of a preview).
C21_PreviewSum ==
    (cpc = "encoded" /\ cval[1].tag = "sections")
        => LET buf == cval[1].msg
               total == PreviewSizeSum(buf, Len(buf))
           IN  /\ total = BodiesBefore(buf, Len(buf) + 1)
               /\ Len(cwire) = 2 + Len(buf) * 5 + total

\* two sections of one and two bytes were encoded: 15 bytes
C21_Witness ==
    /\ cpc = "encoded"
    /\ cval[1].tag = "sections"
    /\ Len(cval[1].msg) = 2
    /\ Len(cval[1].msg[1][2]) = 1
    /\ Len(cval[1].msg[2][2]) = 2
    /\ Len(cwire) = 15

\* C22: finish accepts the largest sizes the wire format holds: a section of
\* exactly 2^32 - 1 bytes is encoded, its byte_size field holding that value (a
\* count of 2^16 - 1 sections cannot be built: a section_buf has one entry per
\* SectionKind).
C22_MaximalSizesEncode ==
    (cpc = "encoded" /\ cval[1].tag = "section" /\ cval[1].msg[2] = u32_MAX)
        => /\ cwire # <<"panic">>
           /\ SubSeq(cwire, 1, 2) = <<0, 1>>
           /\ SubSeq(cwire, 4, 7) = <<255, 255, 255, 255>>

RECURSIVE WidthsBefore(_, _)
\* the sum of the first k widths handed to the builder
WidthsBefore(ws, k) == IF k = 0 THEN 0 ELSE WidthsBefore(ws, k - 1) + ws[k]

\* C23: layout monotonicity.  In a layout built with first id f and widths
\* w_0 .. w_{n-1}, by push and extend_from_slice in any mix, get(f + k) returns
\* the variable of id f + k and width w_k; the first variable is at offset 0 and
\* each next one at the offset of the one before plus its width.
C23_LayoutMonotonic ==
    (lay.got # None /\ lay.got[1].op = "get" /\ lay.first # None
         /\ lay.got[1].id - lay.first[1] \in 0..(Len(lay.pushed) - 1))
        => LET k == lay.got[1].id - lay.first[1]
               layout == lay.layout[1]
           IN  /\ lay.got[1].res =
                      Found(RawVar_new(lay.first[1] + k, WidthsBefore(lay.pushed, k),
                                       lay.pushed[k + 1]))
               /\ FixedLayout_get(layout, lay.first[1]).value.offset = 0
               /\ \A i \in 0..(Len(lay.pushed) - 2) :
                     FixedLayout_get(layout, lay.first[1] + i + 1).value.offset
                         = FixedLayout_get(layout, lay.first[1] + i).value.offset
                               + FixedLayout_get(layout, lay.first[1] + i).value.byte_size

\* first id 3, two pushes and a slice: the third variable is at offset 30
C23_Witness ==
    /\ lay.got # None
    /\ lay.got[1].op = "get"
    /\ lay.first = Some(3)
    /\ lay.pushed = <<10, 20, 30>>
    /\ lay.got[1].id = 5
    /\ lay.got[1].res = Found(RawVar_new(5, 30, 30))

\* C24: a lookup of an id outside [first, first + len), or of any id in an empty
\* layout, panics and returns no variable; get and try_get alike.
C24_LookupOutOfRange ==
    (lay.got # None
         /\ \/ lay.layout[1].first = None
            \/ lay.got[1].id < lay.layout[1].first[1]
            \/ lay.got[1].id >= lay.layout[1].first[1] + Len(lay.layout[1].vars))
        => lay.got[1].res = LookupPanic

\* a lookup of id first + len panicked
C24_Witness ==
    /\ lay.got # None
    /\ lay.layout[1].first = Some(3)
    /\ Len(lay.layout[1].vars) = 2
    /\ lay.got[1].id = 5
    /\ lay.got[1].res = LookupPanic

\* `state` is a State of the account: the zero State, or one a commit of
\* the account produced
OwnState(addr, state) ==
    state = ZeroState \/ \E k \in DOMAIN kv : k[1] = addr /\ k[2] = state

\* C25: committing a storage whose overlay is empty returns the State it was
\* opened at (a State of that account) and leaves the backend as it is, so that a
\* second commit returns the same State again; an execution that wrote nothing
\* reports new_state = the prior State, the zero State when opened at zero.
C25_EmptyCommit ==
    /\ (pc = "func" /\ overlay = EmptyMap /\ OwnState(cur.target, cur.state))
          => (commit_state = cur.state /\ commit_kv = kv)
    /\ (pc = "idle" /\ receipt.kind \in {"call", "spawn"} /\ receipt.success
            /\ overlay = EmptyMap /\ OwnState(cur.target, cur.state))
          => receipt.state = Some(cur.state)

\* a Call at a State that is not zero wrote nothing and reported that State
C25_Witness ==
    /\ pc = "idle"
    /\ receipt.kind = "call"
    /\ receipt.success
    /\ overlay = EmptyMap
    /\ cur.state # ZeroState
    /\ OwnState(cur.target, cur.state)
    /\ receipt.state = Some(cur.state)

\* what a variable holds in the snapshot a State stands for, as an integer
ValueAt(state, var_id) ==
    IF \E p \in state : p[1] = var_id
    THEN LET bs == (CHOOSE p \in state : p[1] = var_id)[2]
         IN  LittleEndian_read_uint(bs, Len(bs))
    ELSE 0

\* the State the execution of `l` opens its storage at: the State of the context
\* for a call, the zero State for the constructor of a spawn
OpenedAt(l) == IF l.kind = "spawn" THEN ZeroState ELSE l.state

\* C26: snapshot reads.  A commit changes no value read under an earlier State
\* of an account, and an execution opened at a State s of its account reads the
\* values of snapshot s, whatever newer States were committed since.
C26_SnapshotReads ==
    /\ [][\A a \in DOMAIN accounts : \A k \in DOMAIN kv : \A i \in VarIds :
             OwnState(a, k[2])
                 => Committed(a, k[2], i, 1)' = Committed(a, k[2], i, 1)]_vars
    /\ []((/\ obs.read # None
           /\ obs.import \in {"get32", "get64"}
           /\ last.kind \in {"call", "spawn"}
           /\ obs.read[1][1] \notin DOMAIN obs.written
           /\ OwnState(last.target[1], OpenedAt(last)))
             => obs.read[1][2] = ValueAt(OpenedAt(last), obs.read[1][1]))

\* a Call opened at the zero State read 0 from a variable that a newer State of
\* the account holds a value for
C26_Witness ==
    /\ obs.read # None
    /\ obs.import = "get64"
    /\ last.kind = "call"
    /\ last.state = ZeroState
    /\ obs.written = EmptyMap
    /\ obs.read[1][2] = 0
    /\ \E k \in DOMAIN kv :
          /\ k[1] = last.target[1]
          /\ k[3] = obs.read[1][1]
          /\ kv[k] # Zeros(Len(kv[k]))

\* C27: svm_alloc, run by call_alloc, and svm_verify, run by verify, run under
\* AccessDenied from their first to their last instruction; the target function
\* of a call or spawn runs under FullAccess, the caller's mode.
C27_AllocAndVerifyDenied ==
    /\ pc = "alloc" => mode = "AccessDenied"
    /\ (pc \in {"alloc", "func"} /\ last.kind = "verify") => mode = "AccessDenied"
    /\ (pc = "func" /\ last.kind \in {"call", "spawn"}) => mode = "FullAccess"

\* svm_verify runs, after svm_alloc returned, under AccessDenied
C27_Witness ==
    /\ pc = "func"
    /\ last.kind = "verify"
    /\ obs.alloc = "ok"
    /\ obs.invoked = <<"svm_alloc", "svm_verify">>
    /\ mode = "AccessDenied"

\* byte j (from 1) of the little-endian form of a value below 2^31
ByteOf(v, j) == IF j <= 4 THEN (v \div (256 ^ (j - 1))) % 256 ELSE 0

\* a value below 2^31 fits in w bytes
FitsWidth(v, w) == w >= 4 \/ v < 256 ^ w

\* what a step that is set32 / set64 (id, v) on a variable of the layout does:
\* `max` is 4 or 8, `back` what the matching get returns after the step
SetLaw(id, v, max, trapped, back) ==
    IF var_length(id) > max \/ ~FitsWidth(v, var_length(id)) \/ mode # "FullAccess"
    THEN trapped
    ELSE /\ ~trapped
         /\ Len(overlay'[id]) = var_length(id)
         /\ \A j \in 1..var_length(id) : overlay'[id][j] = ByteOf(v, j)
         /\ back = Some(<<id, v>>)

\* C28: set32 (set64) on a variable of width w <= 4 (<= 8) stores the w bytes of
\* the little-endian form of v and the get32 (get64) that follows returns v; on a
\* wider variable, or with a value that does not fit in w bytes, the call panics
\* (the guest call fails) and nothing is written.
C28_IntRoundTrip ==
    [][\A id \in VarIds : \A v \in Values :
          (Running /\ InLayout(id)) =>
              /\ StorageImport("set32", set32(id, v))
                    => SetLaw(id, v, Bytes32,
                              pc' = "idle" /\ overlay' = overlay /\ ~receipt'.success,
                              get32(id)'.ret)
              /\ StorageImport("set64", set64(id, v))
                    => SetLaw(id, v, Bytes64,
                              pc' = "idle" /\ overlay' = overlay /\ ~receipt'.success,
                              get64(id)'.ret)]_vars

\* set64 of 65536 on the 8-byte variable: bytes 0, 0, 1, 0, 0, 0, 0, 0
C28_Witness ==
    /\ obs.import = "set64"
    /\ Running
    /\ 1 \in DOMAIN overlay
    /\ overlay[1] = <<0, 0, 1, 0, 0, 0, 0, 0>>
    /\ get64(1).ret = Some(<<1, 65536>>)

\* C29: calldata path.  With empty calldata svm_alloc is neither looked up nor
\* run and no calldata window is set: the target function is the only function
\* invoked.  With calldata, svm_alloc runs once, before the target function, and
\* when the target function starts the calldata is in the memory at the pointer
\* svm_alloc returned and the window is (pointer, length).
C29_CalldataPath ==
    /\ [](/\ pc = "alloc" =>
                /\ cur.func_input # <<>>
                /\ obs.invoked = <<"svm_alloc">>
                /\ calldata = None
          /\ (pc = "func" /\ cur.func_input = <<>>) =>
                /\ obs.invoked = <<cur.func_name>>
                /\ obs.alloc = "none"
                /\ calldata = None
          /\ (pc = "func" /\ cur.func_input # <<>>) =>
                /\ obs.invoked = <<"svm_alloc", cur.func_name>>
                /\ obs.alloc = "ok"
                /\ calldata # None
                /\ calldata[1][2] = Len(cur.func_input))
    /\ [][(pc = "alloc" /\ pc' = "func") =>
             /\ calldata = None
             /\ calldata' # None
             /\ MemRead(calldata[1][1], calldata[1][2])' = cur.func_input]_vars

\* the target function runs with its calldata at pointer 0
C29_Witness ==
    /\ pc = "func"
    /\ steps = 0
    /\ cur.func_input = <<7, 9>>
    /\ calldata = Some(<<0, 2>>)
    /\ MemRead(0, 2) = <<7, 9>>
    /\ obs.invoked = <<"svm_alloc", cur.func_name>>

\* the last call or verify reached the lookup of its functions with calldata,
\* on a template that does not export svm_alloc
AllocMissing ==
    /\ last.kind \in {"call", "verify"}
    /\ LastTemplate # None
    /\ ~LastBreaksCtorRule
    /\ LastTemplate[1].compiles
    /\ LastTemplate[1].instantiates
    /\ last.input # <<>>
    /\ "svm_alloc" \notin LastTemplate[1].exports

\* C30 as stated: with calldata and no svm_alloc export the execution fails with
\* FuncNotFound naming svm_alloc, whether or not the target function is exported.
C30_AllocNotFoundFirst ==
    AllocMissing
        => /\ receipt.error = Some(<<"FuncNotFound", "svm_alloc">>)
           /\ obs.invoked = <<>>

\* C30, amended: the target function is resolved first.  With calldata and no
\* svm_alloc export the execution fails with FuncNotFound naming svm_alloc when
\* the target function is exported with the expected signature; otherwise it
\* fails with FuncNotFound or FuncInvalidSignature naming the target function
\* and svm_alloc is not looked up.  No guest function is invoked in either case.
C30_TargetResolvedFirst ==
    AllocMissing
        => /\ obs.invoked = <<>>
           /\ pc = "idle"
           /\ ~receipt.success
           /\ IF last.func \notin LastTemplate[1].exports
              THEN receipt.error = Some(<<"FuncNotFound", last.func>>) /\ obs.alloc = "none"
              ELSE IF last.func \in LastTemplate[1].badsig
              THEN receipt.error = Some(<<"FuncInvalidSignature", last.func>>)
                       /\ obs.alloc = "none"
              ELSE receipt.error = Some(<<"FuncNotFound", "svm_alloc">>)
                       /\ obs.alloc = "notfound"

\* a Call of an exported function with calldata failed for the missing svm_alloc
C30_Witness ==
    /\ AllocMissing
    /\ last.kind = "call"
    /\ last.func \in LastTemplate[1].exports
    /\ last.func \notin LastTemplate[1].badsig
    /\ receipt.error = Some(<<"FuncNotFound", "svm_alloc">>)

\* ------------------------------------------------------------------- C31
\* the pairs a commit leaves reachable when the storage was opened at the zero
\* State: the overlay's
OverlayPairs == {<<i, overlay[i]>> : i \in DOMAIN overlay}

\* C31: the constructor spawn invokes executes against the zero State with
\* within_spawn = true and ProtectedMode FullAccess, whatever State the
\* transaction context carries, and the receipt of a constructor that returned is
\* Spawn-shaped: account_addr is the computed target, init_state the State the
\* constructor's commit produced.
C31_CtorAtZeroState ==
    /\ []((last.kind = "spawn" /\ Running) =>
            /\ cur.within_spawn
            /\ cur.state = ZeroState
            /\ cur.protected_mode = "FullAccess"
            /\ \E n \in AccountNames :
                   cur.target = compute_account_addr(last.template[1], n, last.input)
            /\ (pc = "func" => mode = "FullAccess")
            /\ \A i \in 0..(Len(Layout) - 1) :
                   i \notin DOMAIN overlay => read_var(i) = Zeros(var_length(i)))
    /\ [][(last.kind = "spawn" /\ pc = "func" /\ pc' = "idle" /\ receipt'.success) =>
            /\ receipt'.kind = "spawn"
            /\ \E n \in AccountNames :
                   receipt'.addr = Some(compute_account_addr(last.template[1], n, last.input))
            /\ receipt'.state = Some(OverlayPairs)
            /\ \A i \in DOMAIN overlay :
                   kv'[<<cur.target, OverlayPairs, i>>] = overlay[i]]_vars

\* a constructor that wrote a variable returned, in a spawn whose context carried
\* a State other than the zero State
C31_Witness ==
    /\ pc = "idle"
    /\ last.kind = "spawn"
    /\ last.state # ZeroState
    /\ receipt.kind = "spawn"
    /\ receipt.success
    /\ receipt.state # Some(ZeroState)

\* ------------------------------------------------------------------- C32
\* the spawn `l` passes every check spawn makes before it stores the account
SpawnPasses(l) ==
    /\ SpawnPriced(l)
    /\ l.gas > func_price(TemplateStore_load(l.template[1])[1])[l.func]
    /\ l.gas >= price_spawn(l.input)

MemoryAt(w) == [i \in 1..w[2] |-> IF w[1] + i - 1 \in DOMAIN memory
                                  THEN memory[w[1] + i - 1] ELSE 0]

\* C33: the returndata of a success receipt is the content the guest's memory
\* has, when the target function returns, in the window of the guest's last
\* set_returndata call; when the guest never called set_returndata it is the
\* empty byte vector.
C33_ReturndataLastWindow ==
    [][(pc = "func" /\ pc' = "idle" /\ receipt'.success) =>
          receipt'.returndata =
              Some(IF obs.windows = <<>> THEN <<>>
                   ELSE MemoryAt(obs.windows[Len(obs.windows)]))]_vars

\* the guest set two different windows and the receipt carries the bytes of the
\* second
C33_Witness ==
    /\ pc = "idle"
    /\ receipt.success
    /\ Len(obs.windows) = 2
    /\ obs.windows[1] # obs.windows[2]
    /\ receipt.returndata = Some(<<0>>)

\* the guest wrote its memory after it had set the window: the receipt carries
\* the bytes written
C33_WitnessWrittenLater ==
    /\ pc = "idle"
    /\ receipt.success
    /\ obs.windows = <<(<<1, 1>>)>>
    /\ receipt.returndata = Some(<<2>>)

\* ------------------------------------------------------------------- C34
\* the operation `l` goes through the execution pipeline: a call, a verify, or a
\* spawn that passed its checks
Executes(l) == l.kind \in {"call", "verify"} \/ SpawnPasses(l)

\* the template the execution of `l` runs, None when the target has no account
TemplateOf(l) ==
    IF l.kind = "spawn" THEN TemplateStore_load(l.template[1])
    ELSE env_account_template(l.target[1])

\* the first condition, in the order of the pipeline's steps, that fails the
\* execution of `l` before the target function is invoked; None when there is none
EarliestError(l) ==
    LET t == TemplateOf(l)[1]
        spawning == l.kind = "spawn"
    IN  IF TemplateOf(l) = None THEN Some(<<"AccountNotFound", l.target[1]>>)
        ELSE IF spawning # (l.func \in t.ctors) THEN Some(<<"FuncNotAllowed", l.func>>)
        ELSE IF ~t.compiles THEN Some(<<"CompilationFailed">>)
        ELSE IF ~t.instantiates THEN Some(<<"InstantiationFailed">>)
        ELSE IF l.func \notin t.exports THEN Some(<<"FuncNotFound", l.func>>)
        ELSE IF l.func \in t.badsig THEN Some(<<"FuncInvalidSignature", l.func>>)
        ELSE IF l.input # <<>> /\ "svm_alloc" \notin t.exports
        THEN Some(<<"FuncNotFound", "svm_alloc">>)
        ELSE None

\* the execution of `l` is over and reported as the order of the steps demands
ReportsEarliest(l) ==
    IF EarliestError(l) # None
    THEN /\ pc = "idle"
         /\ ~receipt.success
         /\ receipt.error = EarliestError(l)
         /\ obs.invoked = <<>>
         /\ obs.commits = 0
         /\ (EarliestError(l)[1] # <<"FuncNotFound", "svm_alloc">> => obs.alloc = "none")
    ELSE \/ pc = "aborted"
         \/ receipt.success
         \/ /\ receipt.error # None
            /\ receipt.error[1][1] \in {"FuncFailed", "OOG"}
            /\ obs.invoked # <<>>

\* C34: error precedence follows the order of the pipeline's steps:
\* AccountNotFound, the constructor rule (FuncNotAllowed), CompilationFailed,
\* InstantiationFailed, the target function's resolution (FuncNotFound /
\* FuncInvalidSignature), the calldata / svm_alloc step, then FuncFailed / OOG
\* from the invocation.  When several conditions hold the receipt reports the
\* earliest one and no later step is performed.
C34_ErrorPrecedence ==
    (Executes(last) /\ ~Running) => ReportsEarliest(last)

\* the same order, for the targets that have an account
C34_PrecedenceWithAccount ==
    (Executes(last) /\ ~Running /\ TemplateOf(last) # None) => ReportsEarliest(last)

\* a call with calldata of a function that the template lists as a constructor,
\* does not export with the expected signature, and whose template has no
\* svm_alloc: the constructor rule is the error reported
C34_SeveralConditions ==
    /\ last.kind = "call"
    /\ pc = "idle"
    /\ TemplateOf(last) # None
    /\ last.input # <<>>
    /\ last.func \notin TemplateOf(last)[1].exports
    /\ last.func \in TemplateOf(last)[1].ctors
    /\ receipt.error = Some(<<"FuncNotAllowed", last.func>>)

\* ------------------------------------------------------------------- C35
\* the content last committed for a page of an address, None when there is none
LastCommitted(addr, page_idx) ==
    IF <<addr, page_idx>> \in DOMAIN pcommitted
    THEN Some(pcommitted[<<addr, page_idx>>]) ELSE None

\* C35: in page storage write_page only adds to the pending set.  A write_page
\* changes no read_page of any instance, the writing one included; read_page of
\* a page, pending or not, returns the content last committed for it (None when
\* it was never committed); the writer's commit makes read_page return the
\* written content.
C35_WriteIsPendingUntilCommit ==
    /\ [](\A i \in Storages : \A p \in PageIndexes :
             read_page(i, p) = LastCommitted(StorageAddr(i), p))
    /\ [][\A i \in Storages : (plast' # None /\ plast'[1][2] = i) =>
             IF plast'[1][1] = "write_page"
             THEN /\ plast'[1][3] \in DOMAIN pending'[i]
                  /\ \A j \in Storages : \A p \in PageIndexes :
                         read_page(j, p)' = read_page(j, p)
             ELSE \A p \in DOMAIN pending[i] :
                      read_page(i, p)' = Some(pending[i][p])]_vars

\* instance 1 wrote over a page it had committed: the page is pending with the
\* new content and instance 1 still reads the committed one
C35_Witness ==
    /\ plast = Some(<<"write_page", 1, 0, <<40, 50, 60>>>>)
    /\ 0 \in DOMAIN pending[1]
    /\ pending[1][0] = <<40, 50, 60>>
    /\ read_page(1, 0) = Some(<<10, 20, 30>>)

\* ------------------------------------------------------------------- C36
\* C36: writing a page that is already pending keeps one pending entry for it:
\* uncommitted_len grows with a write only when the page was not pending, and the
\* entry holds the content of the last write; commit persists exactly the
\* pending entries, i.e. the last written contents, and leaves uncommitted_len 0.
C36_OnePendingEntryPerPage ==
    [][\A i \in Storages : (plast' # None /\ plast'[1][2] = i) =>
          IF plast'[1][1] = "write_page"
          THEN /\ uncommitted_len(i)' =
                     uncommitted_len(i)
                        + (IF plast'[1][3] \in DOMAIN pending[i] THEN 0 ELSE 1)
               /\ pending'[i][plast'[1][3]] = plast'[1][4]
               /\ \A p \in (DOMAIN pending[i]) \ {plast'[1][3]} :
                      pending'[i][p] = pending[i][p]
          ELSE /\ uncommitted_len(i)' = 0
               /\ \A p \in PageIndexes :
                      read_page(i, p)' =
                          IF p \in DOMAIN pending[i] THEN Some(pending[i][p])
                          ELSE read_page(i, p)]_vars

\* instance 1 wrote page 0 twice with different contents: one pending entry,
\* holding the second content
C36_Witness ==
    /\ plast = Some(<<"write_page", 1, 0, <<40, 50, 60>>>>)
    /\ pops = 2
    /\ uncommitted_len(1) = 1
    /\ pending[1][0] = <<40, 50, 60>>
    /\ pkv = EmptyMap

\* ------------------------------------------------------------------- C37
\* the kinds of the sections handed to the encoder
KindsOf(sections) == {sections[i][1] : i \in 1..Len(sections)}

RECURSIVE FirstKinds(_, _)
\* the kinds of the first k sections, each once, in the order of first appearance
FirstKinds(sections, k) ==
    IF k = 0 THEN <<>>
    ELSE IF \E j \in 1..(k - 1) : sections[j][1] = sections[k][1]
    THEN FirstKinds(sections, k - 1)
    ELSE Append(FirstKinds(sections, k - 1), sections[k][1])

RECURSIVE BytesOfKind(_, _, _)
\* the bytes the first k sections hold for `kind`, in order
BytesOfKind(sections, kind, k) ==
    IF k = 0 THEN <<>>
    ELSE BytesOfKind(sections, kind, k - 1)
            \o (IF sections[k][1] = kind THEN sections[k][2] ELSE <<>>)

RECURSIVE ParseEntries(_, _)
\* n entries (a preview and its payload) read from the bytes `w`
ParseEntries(w, n) ==
    IF n = 0 THEN [ok |-> TRUE, entries |-> <<>>, rest |-> w]
    ELSE IF Len(w) < 5 \/ Len(w) < 5 + read_uint_be(SubSeq(w, 2, 5))
    THEN [ok |-> FALSE, entries |-> <<>>, rest |-> <<>>]
    ELSE LET size == read_uint_be(SubSeq(w, 2, 5))
             r == ParseEntries(SubSeq(w, 6 + size, Len(w)), n - 1)
         IN  [ok |-> r.ok, entries |-> << <<w[1], SubSeq(w, 6, 5 + size)>> >> \o r.entries,
              rest |-> r.rest]

\* C37: the encoder emits one preview and one payload per distinct SectionKind,
\* in the order in which the kinds were first encoded.  Two sections of one kind
\* make one entry (its payload holds the bytes of both), so the section count
\* written is the number of distinct kinds encoded, and at most 7.
C37_OneEntryPerKind ==
    (cpc = "encoded" /\ cval[1].tag = "encoder")
        => LET sections == cval[1].msg
               kinds == FirstKinds(sections, Len(sections))
               count == read_uint_be(SubSeq(cwire, 1, 2))
               parsed == ParseEntries(SubSeq(cwire, 3, Len(cwire)), count)
           IN  /\ count = Cardinality(KindsOf(sections))
               /\ count <= 7
               /\ parsed.ok
               /\ parsed.rest = <<>>
               /\ \A k \in 1..count :
                      parsed.entries[k] = <<SectionKind_code(kinds[k]),
                                            BytesOfKind(sections, kinds[k], Len(sections))>>

\* more sections than there are kinds were encoded, and 7 entries were written
C37_Witness ==
    /\ cpc = "encoded"
    /\ cval[1].tag = "encoder"
    /\ Len(cval[1].msg) > 7
    /\ read_uint_be(SubSeq(cwire, 1, 2)) = 7

\* ------------------------------------------------------------------- C38
\* the last lookup was a try_get of an id the layout declares
TryGetInRange ==
    /\ lay.layout[1].first # None
    /\ lay.got[1].id >= lay.layout[1].first[1]
    /\ lay.got[1].id < lay.layout[1].first[1] + Len(lay.layout[1].vars)

\* C38 as stated: try_get is total.  It returns Some(var) for an id in
\* [first, first + len) and None, without panicking, for an id out of range or
\* on an empty layout.
C38_TryGetTotal ==
    (lay.got # None /\ lay.got[1].op = "try_get")
        => IF TryGetInRange
           THEN /\ ~lay.got[1].res.panic
                /\ lay.got[1].res.value # None
                /\ lay.got[1].res.value[1].id = lay.got[1].id
           ELSE lay.got[1].res = Found(None)

\* C38, amended: try_get returns Some(var), the variable of that id, for an id in
\* [first, first + len); for an id out of range or on an empty layout it panics,
\* as get does, and returns nothing - never None.
C38_TryGetPanicsOutOfRange ==
    (lay.got # None /\ lay.got[1].op = "try_get")
        => IF TryGetInRange
           THEN /\ ~lay.got[1].res.panic
                /\ lay.got[1].res.value # None
                /\ lay.got[1].res.value[1].id = lay.got[1].id
                /\ lay.got[1].res.value[1] =
                       lay.layout[1].vars[lay.got[1].id - lay.layout[1].first[1] + 1]
           ELSE lay.got[1].res = LookupPanic

\* a try_get of an id just above the last one of a layout of two variables
\* panicked
C38_Witness ==
    /\ lay.got # None
    /\ lay.got[1].op = "try_get"
    /\ lay.layout[1].first = Some(3)
    /\ Len(lay.layout[1].vars) = 2
    /\ lay.got[1].id = 5
    /\ lay.got[1].res = LookupPanic

\* ------------------------------------------------------------------- C39
\* nibble i of the bytes `data`: the high half of a byte before its low half
NibbleAt(data, i) ==
    IF i % 2 = 1 THEN data[(i + 1) \div 2] \div 16 ELSE data[i \div 2] % 16

\* C39: a NibbleIter over n bytes yields 2n nibbles, the high nibble of each byte
\* before its low nibble, bytes in order, and None on every call after that;
\* nibbles_read is the number of nibbles yielded so far and is_byte_aligned holds
\* exactly when that number is even.
C39_NibblesInOrder ==
    nib # None
        => LET data == nib[1].data
               items == nib[1].items
               yielded == IF Len(items) < 2 * Len(data) THEN Len(items) ELSE 2 * Len(data)
           IN  /\ \A i \in 1..Len(items) :
                      items[i] = IF i <= 2 * Len(data) THEN Some(NibbleAt(data, i)) ELSE None
               /\ nib[1].iter.nibbles_read = yielded
               /\ is_byte_aligned(nib[1].iter) <=> (yielded % 2 = 0)

\* the four nibbles of 0b1001_1111, 0b0011_0000 were yielded and two more calls
\* returned None
C39_Witness ==
    /\ nib # None
    /\ nib[1].data = <<159, 48>>
    /\ nib[1].items = <<Some(9), Some(15), Some(3), Some(0), None, None>>
    /\ nib[1].iter.nibbles_read = 4

====
